---- MODULE Spec2Model ----
(***************************************************************************)
(* A model of the YAML comparison tool (src/src/comparer.py).              *)
(*                                                                         *)
(* Python strings are sequences of one-character strings, so that the      *)
(* suffix stripping of _normalize_repo_url, the parsing of                 *)
(* _clean_diff_path, str.lower() and sorted() are computed on characters.  *)
(* A Python value is a record [t, s, l]: t is the name of its type, s the  *)
(* characters of a scalar, l the items of a list of strings.  A mapping is *)
(* a function whose domain is its set of keys.  A line of the report is a  *)
(* record [fmt, args]: the f-string template of the source and the         *)
(* formatted values put into it.                                           *)
(***************************************************************************)
EXTENDS Integers, Sequences, FiniteSets, TLC

\* ------------------------------------------------------------ bounds

\* Longest `extensions` / `skins` list of a generated tree.
MaxEntries == 2
\* Most keys that the two attribute mappings of a generated item mention.
MaxKeys == 2
\* Longest `packages` / `repositories` list of a generated tree.
MaxAux == 2

\* The most tokens a generated repository URL is made of.
MaxTokens == 3

\* The most version keys a generated base configuration holds.
MaxVersionKeys == 2

\* The most tokens that follow the head of a generated DeepDiff path.
MaxPathTokens == 3

\* The most tokens a URL of a chain of three URLs is made of.
MaxChainTokens == 2

\* The most calls of _load_cached_or_fetch made one after another.
MaxLoads == 2

\* ------------------------------------------------------------ strings

\* The characters in use, in code point order (the order of sorted()).
Ascii ==
  << " ", "'", ".", "/", "0", "1", "2", "3", "4", "A", "B", "E", "L", "N", "P", "Q", "R", "[", "]", "_",
     "a", "b", "c", "d", "e", "f", "g", "h", "i", "l", "m", "n", "o",
     "p", "q", "r", "s", "t", "u", "v", "w", "y" >>

Ord(ch) == CHOOSE i \in 1..Len(Ascii) : Ascii[i] = ch

\* a < b for two Python strings: lexicographic on code points.
RECURSIVE StrLess(_, _)
StrLess(a, b) ==
  IF b = <<>> THEN FALSE
  ELSE IF a = <<>> THEN TRUE
  ELSE IF Head(a) = Head(b) THEN StrLess(Tail(a), Tail(b))
  ELSE Ord(Head(a)) < Ord(Head(b))

\* Mutant of sorted: the names in descending order.
RECURSIVE sorted_descending(_)
sorted_descending(S) ==
  IF S = {} THEN <<>>
  ELSE LET m == CHOOSE x \in S : \A y \in S \ {x} : StrLess(y, x)
       IN <<m>> \o sorted_descending(S \ {m})

\* sorted(S) for a set of strings.
RECURSIVE sorted(_)
sorted(S) ==
  IF S = {} THEN <<>>
  ELSE LET m == CHOOSE x \in S : \A y \in S \ {x} : StrLess(x, y)
       IN <<m>> \o sorted(S \ {m})

LowerChar(ch) ==
  CASE ch = "A" -> "a" [] ch = "B" -> "b" [] ch = "N" -> "n"
    [] ch = "P" -> "p" [] ch = "Q" -> "q" [] OTHER -> ch

\* str.lower()
lower(s) == [i \in 1..Len(s) |-> LowerChar(s[i])]

startswith(s, p) == Len(s) >= Len(p) /\ SubSeq(s, 1, Len(p)) = p

endswith(s, p) == Len(s) >= Len(p) /\ SubSeq(s, Len(s) - Len(p) + 1, Len(s)) = p

\* str.find(p): the 0-based index of the first occurrence of p, or -1.
find(s, p) ==
  LET hits == {i \in 0..(Len(s) - Len(p)) : SubSeq(s, i + 1, i + Len(p)) = p}
  IN IF hits = {} THEN -1 ELSE CHOOSE i \in hits : \A j \in hits : i <= j

\* s[a:b] and s[a:] with 0-based, non-negative a and b.
Slice(s, a, b) == SubSeq(s, a + 1, b)
SliceFrom(s, a) == SubSeq(s, a + 1, Len(s))

\* ------------------------------------------------------------ values

PyNone == [t |-> "NoneType", s |-> <<>>, l |-> <<>>]
PyStr(x) == [t |-> "str", s |-> x, l |-> <<>>]
PyInt(x) == [t |-> "int", s |-> x, l |-> <<>>]
PyList(xs) == [t |-> "list", s |-> <<>>, l |-> xs]

\* bool(v): None, "", 0 and [] are false.
Truthy(v) ==
  CASE v.t = "NoneType" -> FALSE
    [] v.t = "str" -> v.s # <<>>
    [] v.t = "int" -> v.s # <<"0">>
    [] OTHER -> v.l # <<>>

\* d.get(k) and d.get(k, default)
Get(d, k) == IF k \in DOMAIN d THEN d[k] ELSE PyNone
GetOr(d, k, default) == IF k \in DOMAIN d THEN d[k] ELSE default

\* str(v) of a scalar, as an f-string formats it.
Format(v) ==
  CASE v.t = "NoneType" -> <<"N", "o", "n", "e">>
    [] OTHER -> v.s

\* set(xs) of a list of strings
SetOf(xs) == {xs[i] : i \in 1..Len(xs)}

\* The keys the source names.
commit == <<"c", "o", "m", "m", "i", "t">>
repository == <<"r", "e", "p", "o", "s", "i", "t", "o", "r", "y">>
branch == <<"b", "r", "a", "n", "c", "h">>
additional_steps ==
  <<"a", "d", "d", "i", "t", "i", "o", "n", "a", "l", " ", "s", "t", "e", "p", "s">>
composer_update ==
  <<"c", "o", "m", "p", "o", "s", "e", "r", " ", "u", "p", "d", "a", "t", "e">>
name == <<"n", "a", "m", "e">>
version == <<"v", "e", "r", "s", "i", "o", "n">>
url == <<"u", "r", "l">>
wikimedia == <<"w", "i", "k", "i", "m", "e", "d", "i", "a">>
dev == <<"d", "e", "v">>

\* ------------------------------------------------------------ _clean_diff_path

\* The value returned: a str, or None when the function falls off its end.
_clean_diff_path(path) ==
  IF startswith(path, <<"r", "o", "o", "t">>)
  THEN IF \/ (startswith(path, <<"r", "o", "o", "t", "[", "'">>)
               /\ find(path, <<"'", "]">>) # -1)
          \/ (startswith(path, <<"r", "o", "o", "t", "[", "\"">>)
               /\ find(path, <<"\"", "]">>) # -1)
       THEN LET end_quote ==
                  IF startswith(path, <<"r", "o", "o", "t", "[", "'">>)
                  THEN find(path, <<"'", "]">>)
                  ELSE find(path, <<"\"", "]">>)
                prefix_len == 6
            IN IF end_quote > prefix_len
               THEN PyStr(Slice(path, prefix_len, end_quote)
                          \o SliceFrom(path, end_quote + 2))
               ELSE PyNone
       ELSE IF startswith(path, <<"r", "o", "o", "t", "[">>) /\ endswith(path, <<"]">>)
       THEN PyStr(Slice(path, 5, Len(path) - 1))
       ELSE IF startswith(path, <<"r", "o", "o", "t", ".">>)
       THEN PyStr(SliceFrom(path, 5))
       ELSE PyStr(SliceFrom(path, 4))
  ELSE PyStr(path)

\* ------------------------------------------------------------ repository URLs

strip_slash(u) == IF endswith(u, <<"/">>) THEN SubSeq(u, 1, Len(u) - 1) ELSE u

strip_git(u) ==
  IF endswith(u, <<".", "g", "i", "t">>) THEN SubSeq(u, 1, Len(u) - 4) ELSE u

\* Mutant of _normalize_repo_url: ".git" removed before the slash.
_normalize_repo_url_git_first(u) == IF u = <<>> THEN u ELSE strip_slash(strip_git(u))

\* _normalize_repo_url of a non-None value (a str).
_normalize_repo_url(u) == IF u = <<>> THEN u ELSE strip_git(strip_slash(u))

\* Mutant of _repos_are_equivalent: only the first URL is normalized.
_repos_are_equivalent_one_sided(repo1, repo2) ==
  LET empty1 == repo1.t = "NoneType" \/ (repo1.t = "str" /\ repo1.s = <<>>)
      empty2 == repo2.t = "NoneType" \/ (repo2.t = "str" /\ repo2.s = <<>>)
  IN IF empty1 /\ empty2 THEN TRUE
     ELSE IF empty1 \/ empty2 THEN FALSE
     ELSE _normalize_repo_url(repo1.s) = repo2.s

\* Mutant of _repos_are_equivalent: "" is compared by its normal form, so it is
\* equivalent to None and to every string whose normal form is empty.
_repos_are_equivalent_by_normal_form(repo1, repo2) ==
  IF repo1.t = "NoneType" \/ repo2.t = "NoneType"
  THEN (repo1.t = "NoneType" \/ repo1.s = <<>>) /\ (repo2.t = "NoneType" \/ repo2.s = <<>>)
  ELSE _normalize_repo_url(repo1.s) = _normalize_repo_url(repo2.s)

_repos_are_equivalent(repo1, repo2) ==
  LET empty1 == repo1.t = "NoneType" \/ (repo1.t = "str" /\ repo1.s = <<>>)
      empty2 == repo2.t = "NoneType" \/ (repo2.t = "str" /\ repo2.s = <<>>)
  IN IF empty1 /\ empty2 THEN TRUE
     ELSE IF empty1 \/ empty2 THEN FALSE
     ELSE _normalize_repo_url(repo1.s) = _normalize_repo_url(repo2.s)

\* ------------------------------------------------------------ DeepDiff

\* Sequence helpers.
RECURSIVE Concat(_)
Concat(ss) == IF ss = <<>> THEN <<>> ELSE Head(ss) \o Concat(Tail(ss))

RECURSIVE Ascending(_)
Ascending(S) ==
  IF S = {} THEN <<>>
  ELSE LET m == CHOOSE x \in S : \A y \in S : x <= y
       IN <<m>> \o Ascending(S \ {m})

Digits == <<"0", "1", "2", "3">>

\* The path DeepDiff gives the value of key k, and item i of that value.
KeyPath(k) == <<"r", "o", "o", "t", "[", "'">> \o k \o <<"'", "]">>
ItemPath(k, i) == KeyPath(k) \o <<"[", Digits[i + 1], "]">>

Change(path, old, new) == [path |-> path, old |-> old, new |-> new]

\* Two lists under ignore_order=True (repetition not reported): the items of
\* each list missing from the other, by 0-based index of first occurrence.
Missing(xs, ys) ==
  Ascending({i \in 0..(Len(xs) - 1) :
               /\ xs[i + 1] \notin SetOf(ys)
               /\ \A j \in 0..(i - 1) : xs[j + 1] # xs[i + 1]})

Min(a, b) == IF a <= b THEN a ELSE b

\* A removed item and an added item are paired and reported as a changed
\* value at the removed item's index; the rest are reported as removed, added.
ListPairs(k, v1, v2) ==
  LET rem == Missing(v1.l, v2.l)
      add == Missing(v2.l, v1.l)
  IN [i \in 1..Min(Len(rem), Len(add)) |->
        Change(ItemPath(k, rem[i]), PyStr(v1.l[rem[i] + 1]), PyStr(v2.l[add[i] + 1]))]

ListRemoved(k, v1, v2) ==
  LET rem == Missing(v1.l, v2.l)
      add == Missing(v2.l, v1.l)
      n == Min(Len(rem), Len(add))
  IN [i \in 1..(Len(rem) - n) |-> Change(ItemPath(k, rem[n + i]), PyNone, PyNone)]

ListAdded(k, v1, v2) ==
  LET rem == Missing(v1.l, v2.l)
      add == Missing(v2.l, v1.l)
      n == Min(Len(rem), Len(add))
  IN [i \in 1..(Len(add) - n) |-> Change(ItemPath(k, add[n + i]), PyNone, PyNone)]

\* The changes of one kind between two mappings, keys in sorted order.
ChangesOf(kind, t1, t2) ==
  LET both == sorted(DOMAIN t1 \cap DOMAIN t2)
      At(k) ==
        LET v1 == t1[k]
            v2 == t2[k]
        IN CASE kind = "type_changes" ->
                  IF v1.t # v2.t THEN <<Change(KeyPath(k), v1, v2)>> ELSE <<>>
             [] kind = "values_changed" ->
                  IF v1.t # v2.t \/ v1 = v2 THEN <<>>
                  ELSE IF v1.t = "list" THEN ListPairs(k, v1, v2)
                  ELSE <<Change(KeyPath(k), v1, v2)>>
             [] kind = "iterable_item_added" ->
                  IF v1.t = "list" /\ v2.t = "list" THEN ListAdded(k, v1, v2) ELSE <<>>
             [] kind = "iterable_item_removed" ->
                  IF v1.t = "list" /\ v2.t = "list" THEN ListRemoved(k, v1, v2) ELSE <<>>
      OnlyIn(a, b) ==
        LET ks == sorted(DOMAIN a \ DOMAIN b)
        IN [i \in 1..Len(ks) |-> Change(KeyPath(ks[i]), PyNone, PyNone)]
  IN CASE kind = "dictionary_item_added" -> OnlyIn(t2, t1)
       [] kind = "dictionary_item_removed" -> OnlyIn(t1, t2)
       [] OTHER -> Concat([i \in 1..Len(both) |-> At(both[i])])

\* The kinds of change DeepDiff reports for mappings, lists and scalars, in
\* the order of the keys of its result.
ChangeTypes ==
  << "type_changes", "dictionary_item_added", "dictionary_item_removed",
     "values_changed", "iterable_item_added", "iterable_item_removed" >>

\* DeepDiff(t1, t2, ignore_order=True).items(): the non-empty kinds of change.
DeepDiff(t1, t2) ==
  LET all == [i \in 1..Len(ChangeTypes) |->
                [type |-> ChangeTypes[i], changes |-> ChangesOf(ChangeTypes[i], t1, t2)]]
  IN SelectSeq(all, LAMBDA e : e.changes # <<>>)

\* ------------------------------------------------------------ _compare_extensions

Line(fmt, args) == [fmt |-> fmt, args |-> args]

EmptyDict == [k \in {} |-> PyNone]

\* {ext: data for item in items for ext, data in item.items()}: a later
\* entry of a name overwrites an earlier one.
RECURSIVE to_dict(_)
to_dict(items) ==
  IF items = <<>> THEN EmptyDict
  ELSE LET acc == to_dict(SubSeq(items, 1, Len(items) - 1))
           item == items[Len(items)]
       IN [k \in DOMAIN acc \cup DOMAIN item |->
             IF k \in DOMAIN item THEN item[k] ELSE acc[k]]

\* list(S) of a set of strings: the order of iteration follows the hashes of
\* the process, given here as a sequence hash_order of all strings.
list_of_set(S, hash_order) == SelectSeq(hash_order, LAMBDA x : x \in S)

steps_of(data) == SetOf(GetOr(data, additional_steps, PyList(<<>>)).l)

commit_differs(t, c) == Get(t, commit) # Get(c, commit)
\* Mutant of repo_differs: the two values compared exactly.
repo_differs_exact(t, c) == Get(t, repository) # Get(c, repository)

repo_differs(t, c) == ~_repos_are_equivalent(Get(t, repository), Get(c, repository))
branch_differs(t, c) == Get(t, branch) # Get(c, branch)
steps_differ(t, c) == steps_of(t) # steps_of(c)

\* any([...]) over the four fields checked one by one.
specific_fields_differ(t, c) ==
  commit_differs(t, c) \/ repo_differs(t, c) \/ branch_differs(t, c) \/ steps_differ(t, c)

\* A changed value that is skipped: the `repository` key with equivalent URLs.
is_equivalent_repo_change(ch) ==
  /\ _clean_diff_path(ch.path) = PyStr(repository)
  /\ _repos_are_equivalent(ch.old, ch.new)

AlwaysMeaningful ==
  { "type_changes", "dictionary_item_added", "dictionary_item_removed",
    "iterable_item_added", "iterable_item_removed" }

\* Mutant of has_meaningful_differences: every extension with a non-empty
\* structural diff is taken as different.
has_meaningful_differences_any_diff(t, c, diff) == TRUE

\* has_meaningful_differences, as decided before an extension is listed.
has_meaningful_differences(t, c, diff) ==
  \/ specific_fields_differ(t, c)
  \/ \E i \in 1..Len(diff) :
       \/ /\ diff[i].type = "values_changed"
          /\ \E j \in 1..Len(diff[i].changes) :
               ~is_equivalent_repo_change(diff[i].changes[j])
       \/ diff[i].type \in AlwaysMeaningful

ClassRepr(t) ==
  CASE t = "str" -> <<"s", "t", "r">>
    [] t = "int" -> <<"i", "n", "t">>
    [] t = "list" -> <<"l", "i", "s", "t">>
    [] OTHER -> <<"N", "o", "n", "e", "T", "y", "p", "e">>

\* The lines of one kind of change; skip_repos is TRUE where the source skips
\* changed `repository` values that are equivalent.
other_lines(e, skip_repos) ==
  LET n == Len(e.changes)
      path(j) == Format(_clean_diff_path(e.changes[j].path))
  IN CASE e.type = "values_changed" ->
            Concat([j \in 1..n |->
              IF skip_repos /\ is_equivalent_repo_change(e.changes[j]) THEN <<>>
              ELSE <<Line("          {}: '{}' -> '{}'",
                          <<path(j), Format(e.changes[j].old), Format(e.changes[j].new)>>)>>])
       [] e.type = "type_changes" ->
            [j \in 1..n |->
              Line("          {}: type changed from {} to {}",
                   <<path(j), ClassRepr(e.changes[j].old.t), ClassRepr(e.changes[j].new.t)>>)]
       [] e.type = "dictionary_item_added" ->
            [j \in 1..n |-> Line("          Added: {}", <<path(j)>>)]
       [] e.type = "dictionary_item_removed" ->
            [j \in 1..n |-> Line("          Removed: {}", <<path(j)>>)]
       [] e.type = "iterable_item_added" ->
            <<Line("          Added {} item(s) to iterable", <<<<Digits[n + 1]>>>>)>>
       [] e.type = "iterable_item_removed" ->
            <<Line("          Removed {} item(s) from iterable", <<<<Digits[n + 1]>>>>)>>

other_differences(diff, skip_repos) ==
  Concat([i \in 1..Len(diff) |-> other_lines(diff[i], skip_repos)])

REL1_43 == <<"R", "E", "L", "1", "_", "4", "3">>

commit_lines(t, c) ==
  IF commit_differs(t, c)
  THEN << Line("        Taqasta commit: {}", <<Format(Get(t, commit))>>),
          Line("        Canasta commit: {}", <<Format(Get(c, commit))>>) >>
  ELSE <<>>

\* Mutant of OrDefault: the value formatted without the fallback label.
OrDefault_plain(v, default) == Format(v)

\* taqasta_repo or 'wikimedia'
OrDefault(v, default) == IF Truthy(v) THEN Format(v) ELSE default

repo_lines(t, c) ==
  IF repo_differs(t, c)
  THEN << Line("        Taqasta repo: {}", <<OrDefault(Get(t, repository), wikimedia)>>),
          Line("        Canasta repo: {}", <<OrDefault(Get(c, repository), wikimedia)>>) >>
  ELSE <<>>

branch_lines(t, c) ==
  IF branch_differs(t, c)
  THEN << Line("        Taqasta branch: {}", <<OrDefault(Get(t, branch), REL1_43)>>),
          Line("        Canasta branch: {}", <<OrDefault(Get(c, branch), REL1_43)>>) >>
  ELSE <<>>

steps_lines(t, c, hash_order) ==
  LET only_taqasta_steps == steps_of(t) \ steps_of(c)
      only_canasta_steps == steps_of(c) \ steps_of(t)
  IN IF steps_differ(t, c)
     THEN (IF only_taqasta_steps # {}
           THEN <<Line("        Only in Taqasta: {}", list_of_set(only_taqasta_steps, hash_order))>>
           ELSE <<>>)
          \o (IF only_canasta_steps # {}
              THEN <<Line("        Only in Canasta: {}", list_of_set(only_canasta_steps, hash_order))>>
              ELSE <<>>)
     ELSE <<>>

\* Mutant of render_extension: the other differences shown for every listed
\* extension, whether or not one of the four fields differs.
render_extension_always_other(output, ext, t, c, hash_order) ==
  LET shown == Append(output, Line("    ~ {}:", <<ext>>))
                 \o commit_lines(t, c) \o repo_lines(t, c)
                 \o branch_lines(t, c) \o steps_lines(t, c, hash_order)
      other == other_differences(DeepDiff(t, c), TRUE)
  IN IF other # <<>>
     THEN shown \o <<Line("        Other differences:", <<>>)>> \o other
     ELSE shown

\* One pass of the loop over `differences`: output after the extension ext.
render_extension(output, ext, t, c, hash_order) ==
  LET diff == DeepDiff(t, c)
      shown == Append(output, Line("    ~ {}:", <<ext>>))
                 \o commit_lines(t, c) \o repo_lines(t, c)
                 \o branch_lines(t, c) \o steps_lines(t, c, hash_order)
      other == other_differences(diff, TRUE)
  IN IF specific_fields_differ(t, c) THEN shown
     ELSE IF other # <<>>
     THEN shown \o <<Line("        Other differences:", <<>>)>> \o other
     ELSE IF shown # <<>> /\ shown[Len(shown)] = Line("    ~ {}:", <<ext>>)
     THEN SubSeq(shown, 1, Len(shown) - 1)
     ELSE shown

RECURSIVE render_extensions(_, _, _, _, _)
render_extensions(output, differences, td, cd, hash_order) ==
  IF differences = <<>> THEN output
  ELSE render_extensions(
         render_extension(output, Head(differences), td[Head(differences)],
                          cd[Head(differences)], hash_order),
         Tail(differences), td, cd, hash_order)

\* The `+ name` / `- name` lines of the extensions found on one side only.
unique_extension_lines(fmt, d, names) ==
  Concat([i \in 1..Len(names) |->
    <<Line(fmt, <<names[i]>>)>>
    \o (IF commit \in DOMAIN d[names[i]]
        THEN <<Line("        commit: {}", <<Format(d[names[i]][commit])>>)>> ELSE <<>>)
    \o (IF repository \in DOMAIN d[names[i]]
        THEN <<Line("        repository: {}", <<Format(d[names[i]][repository])>>)>> ELSE <<>>)])

\* The extensions of both sides appended to `differences`.
extension_differences(td, cd) ==
  SelectSeq(sorted(DOMAIN td \cap DOMAIN cd),
            LAMBDA ext : /\ DeepDiff(td[ext], cd[ext]) # <<>>
                         /\ has_meaningful_differences(td[ext], cd[ext],
                                                       DeepDiff(td[ext], cd[ext])))

_compare_extensions(taqasta_exts, canasta_exts, hash_order) ==
  LET taqasta_ext_dict == to_dict(taqasta_exts)
      canasta_ext_dict == to_dict(canasta_exts)
      only_taqasta == DOMAIN taqasta_ext_dict \ DOMAIN canasta_ext_dict
      only_canasta == DOMAIN canasta_ext_dict \ DOMAIN taqasta_ext_dict
      differences == extension_differences(taqasta_ext_dict, canasta_ext_dict)
      unique ==
        (IF only_taqasta # {}
         THEN <<Line("  Extensions only in Taqasta:", <<>>)>>
              \o unique_extension_lines("    + {}", taqasta_ext_dict, sorted(only_taqasta))
         ELSE <<>>)
        \o (IF only_canasta # {}
            THEN <<Line("  Extensions only in Canasta:", <<>>)>>
                 \o unique_extension_lines("    - {}", canasta_ext_dict, sorted(only_canasta))
            ELSE <<>>)
  IN IF differences # <<>>
     THEN render_extensions(
            Append(unique, Line("  Extensions with different configurations:", <<>>)),
            differences, taqasta_ext_dict, canasta_ext_dict, hash_order)
     ELSE unique

\* ------------------------------------------------------------ _compare_skins

\* Mutant of skin_differences: a skin is listed only when its commits differ.
skin_differences_commit_only(td, cd) ==
  SelectSeq(sorted(DOMAIN td \cap DOMAIN cd),
            LAMBDA skin : commit_differs(td[skin], cd[skin]))

\* Mutant of skin_differences: skins filtered as extensions are, equivalent
\* repository URLs not counting as a difference.
skin_differences_equivalence_aware(td, cd) == extension_differences(td, cd)

\* The skins of both sides appended to `differences`.
skin_differences(td, cd) ==
  SelectSeq(sorted(DOMAIN td \cap DOMAIN cd),
            LAMBDA skin : DeepDiff(td[skin], cd[skin]) # <<>>)

\* Mutant of render_skin: "Other differences" shown whatever the commits are.
render_skin_always_other(skin, t, c) ==
  <<Line("    ~ {}:", <<skin>>)>>
  \o commit_lines(t, c)
  \o <<Line("        Other differences:", <<>>)>>
  \o other_differences(DeepDiff(t, c), FALSE)

\* One pass of the loop over `differences`: the lines of the skin.
render_skin(skin, t, c) ==
  <<Line("    ~ {}:", <<skin>>)>>
  \o commit_lines(t, c)
  \o (IF Get(t, commit) = Get(c, commit)
      THEN <<Line("        Other differences:", <<>>)>>
           \o other_differences(DeepDiff(t, c), FALSE)
      ELSE <<>>)

_compare_skins(taqasta_skins, canasta_skins) ==
  LET taqasta_skin_dict == to_dict(taqasta_skins)
      canasta_skin_dict == to_dict(canasta_skins)
      only_taqasta == sorted(DOMAIN taqasta_skin_dict \ DOMAIN canasta_skin_dict)
      only_canasta == sorted(DOMAIN canasta_skin_dict \ DOMAIN taqasta_skin_dict)
      differences == skin_differences(taqasta_skin_dict, canasta_skin_dict)
  IN (IF only_taqasta # <<>>
      THEN <<Line("  Skins only in Taqasta:", <<>>)>>
           \o [i \in 1..Len(only_taqasta) |-> Line("    + {}", <<only_taqasta[i]>>)]
      ELSE <<>>)
     \o (IF only_canasta # <<>>
         THEN <<Line("  Skins only in Canasta:", <<>>)>>
              \o [i \in 1..Len(only_canasta) |-> Line("    - {}", <<only_canasta[i]>>)]
         ELSE <<>>)
     \o (IF differences # <<>>
         THEN <<Line("  Skins with different configurations:", <<>>)>>
              \o Concat([i \in 1..Len(differences) |->
                   render_skin(differences[i], taqasta_skin_dict[differences[i]],
                               canasta_skin_dict[differences[i]])])
         ELSE <<>>)

\* ------------------------------------------------------------ _compare_packages

\* The (name, data) pairs of every entry of a list, overwritten ones included.
entries_of(items) ==
  UNION {{<<k, items[i][k]>> : k \in DOMAIN items[i]} : i \in 1..Len(items)}

needs_composer_update(ext_data) ==
  /\ Truthy(Get(ext_data, additional_steps))
  /\ composer_update \in SetOf(ext_data[additional_steps].l)

\* Mutant of canasta_package_set: the names of the extensions not lowercased.
canasta_package_set_cased(canasta_exts) ==
  {e[1] : e \in {x \in entries_of(canasta_exts) : needs_composer_update(x[2])}}

\* canasta_packages
canasta_package_set(canasta_exts) ==
  {lower(e[1]) : e \in {x \in entries_of(canasta_exts) : needs_composer_update(x[2])}}

\* Mutant of taqasta_package_set: the names of the packages not lowercased.
taqasta_package_set_cased(taqasta_packages) ==
  {taqasta_packages[i][name].s :
     i \in {j \in 1..Len(taqasta_packages) : name \in DOMAIN taqasta_packages[j]}}

\* taqasta_package_names
taqasta_package_set(taqasta_packages) ==
  {lower(taqasta_packages[i][name].s) :
     i \in {j \in 1..Len(taqasta_packages) : name \in DOMAIN taqasta_packages[j]}}

\* The line of the first package entry whose lowercased name is pkg.
package_line(taqasta_packages, pkg) ==
  LET hits == {i \in 1..Len(taqasta_packages) :
                 lower(GetOr(taqasta_packages[i], name, PyStr(<<>>)).s) = pkg}
      first == CHOOSE i \in hits : \A j \in hits : i <= j
      tp == taqasta_packages[first]
  IN IF hits = {} THEN <<>>
     ELSE <<Line("    + {} @ {}", <<tp[name].s, Format(GetOr(tp, version, PyStr(dev)))>>)>>

_compare_packages(taqasta_packages, canasta_exts) ==
  LET canasta_packages == canasta_package_set(canasta_exts)
      taqasta_package_names == taqasta_package_set(taqasta_packages)
      only_taqasta == sorted(taqasta_package_names \ canasta_packages)
      only_canasta == sorted(canasta_packages \ taqasta_package_names)
  IN (IF only_taqasta # <<>>
      THEN <<Line("  Composer packages only in Taqasta:", <<>>)>>
           \o Concat([i \in 1..Len(only_taqasta) |->
                package_line(taqasta_packages, only_taqasta[i])])
      ELSE <<>>)
     \o (IF only_canasta # <<>>
         THEN <<Line("  Extensions requiring composer update only in Canasta:", <<>>)>>
              \o [i \in 1..Len(only_canasta) |-> Line("    - {}", <<only_canasta[i]>>)]
         ELSE <<>>)

\* ------------------------------------------------------------ _compare_repositories

\* d.get(section, []) of a configuration tree.
Section(yaml, section) == IF section \in DOMAIN yaml THEN yaml[section] ELSE <<>>

\* taqasta_repo_urls
taqasta_repo_url_set(taqasta_repos) ==
  {taqasta_repos[i][url] :
     i \in {j \in 1..Len(taqasta_repos) : url \in DOMAIN taqasta_repos[j]}}

\* Mutant of canasta_repo_url_set: the skins are not looked at.
canasta_repo_url_set_extensions_only(yaml) ==
  {e[2][repository] :
     e \in {x \in entries_of(Section(yaml, "extensions")) : repository \in DOMAIN x[2]}}

\* canasta_repo_urls: the `repository` of every entry of both item sections.
canasta_repo_url_set(yaml) ==
  {e[2][repository] :
     e \in {x \in entries_of(Section(yaml, "extensions")) \cup entries_of(Section(yaml, "skins")) :
              repository \in DOMAIN x[2]}}

\* Mutant of without_equivalent: URLs matched by equality.
without_equal(urls, others) == {u \in urls : u \notin others}

\* The members of `urls` that no member of `others` is equivalent to.
without_equivalent(urls, others) ==
  {u \in urls : ~\E o \in others : _repos_are_equivalent(u, o)}

\* sorted() raises TypeError on a set that holds None beside another value.
sort_raises(S) == Cardinality(S) > 1 /\ \E v \in S : v.t # "str"

\* sorted(S) of a set of URL values, formatted.
sorted_urls(S) ==
  IF \A v \in S : v.t = "str" THEN sorted({v.s : v \in S})
  ELSE [i \in 1..Cardinality(S) |-> Format(CHOOSE v \in S : TRUE)]

_compare_repositories(taqasta_repos, yaml) ==
  LET taqasta_repo_urls == taqasta_repo_url_set(taqasta_repos)
      canasta_repo_urls == canasta_repo_url_set(yaml)
      only_taqasta == sorted_urls(without_equivalent(taqasta_repo_urls, canasta_repo_urls))
      only_canasta == sorted_urls(without_equivalent(canasta_repo_urls, taqasta_repo_urls))
  IN (IF only_taqasta # <<>>
      THEN <<Line("  Custom repositories only in Taqasta:", <<>>)>>
           \o [i \in 1..Len(only_taqasta) |-> Line("    + {}", <<only_taqasta[i]>>)]
      ELSE <<>>)
     \o (IF only_canasta # <<>>
         THEN <<Line("  Custom repositories only in Canasta:", <<>>)>>
              \o [i \in 1..Len(only_canasta) |-> Line("    - {}", <<only_canasta[i]>>)]
         ELSE <<>>)

\* Whether _compare_repositories raises instead of returning.
repositories_raise(taqasta_repos, yaml) ==
  \/ sort_raises(without_equivalent(taqasta_repo_url_set(taqasta_repos),
                                    canasta_repo_url_set(yaml)))
  \/ sort_raises(without_equivalent(canasta_repo_url_set(yaml),
                                    taqasta_repo_url_set(taqasta_repos)))

\* ------------------------------------------------------------ compare

\* Mutant of section_lines: the header is given whatever the body is.
section_lines_always(header, body) == <<Line(header, <<>>)>> \o body

\* One section of the report: its header and its body, when the body is not empty.
section_lines(header, body) == IF body # <<>> THEN <<Line(header, <<>>)>> \o body ELSE <<>>

\* The lines of the report; <<Line("TypeError", <<>>)>> stands for the call raising.
compare(t_yaml, c_yaml, taqasta_ref, canasta_ref, mw, hash_order) ==
  LET ext_diff == _compare_extensions(Section(t_yaml, "extensions"),
                                      Section(c_yaml, "extensions"), hash_order)
      skin_diff == _compare_skins(Section(t_yaml, "skins"), Section(c_yaml, "skins"))
      pkg_diff == _compare_packages(Section(t_yaml, "packages"),
                                    Section(c_yaml, "extensions"))
      repo_diff == _compare_repositories(Section(t_yaml, "repositories"), c_yaml)
  IN IF repositories_raise(Section(t_yaml, "repositories"), c_yaml)
     THEN <<Line("TypeError", <<>>)>>
     ELSE <<Line("Comparing Taqasta ({}) vs Canasta ({})", <<taqasta_ref, canasta_ref>>)>>
          \o (IF Truthy(mw) THEN <<Line("MediaWiki Version: {}", <<Format(mw)>>)>> ELSE <<>>)
          \o <<Line("======================================================================", <<>>)>>
          \o section_lines("\nEXTENSIONS:", ext_diff)
          \o section_lines("\nSKINS:", skin_diff)
          \o section_lines("\nCOMPOSER PACKAGES:", pkg_diff)
          \o section_lines("\nREPOSITORIES:", repo_diff)
          \o (IF ext_diff = <<>> /\ skin_diff = <<>> /\ pkg_diff = <<>> /\ repo_diff = <<>>
              THEN <<Line("\nNo differences found!", <<>>)>> ELSE <<>>)

VARIABLES taqasta_yaml, canasta_yaml, mw_version, result, arguments, returned,
          args, pc, taqasta_ref, canasta_ref, stdout, stderr, exit_code, raised,
          cache, network, loads, procs

\* The locals and the streams of a run of main.
main_vars == <<args, pc, taqasta_ref, canasta_ref, stdout, stderr, exit_code, raised>>

\* The cache directory, the requests sent, the loads asked of the fetcher and
\* the fetcher processes at work.
fetcher_vars == <<cache, network, loads, procs>>

vars == <<taqasta_yaml, canasta_yaml, mw_version, result, arguments, returned,
          main_vars, fetcher_vars>>

\* No function has been called on its own: no arguments, nothing returned.
Unset == [t |-> "unset", s |-> <<>>, l |-> <<>>]

NoCall == arguments = <<>> /\ returned = Unset

\* The exit codes of main.
EXIT_SUCCESS == 0
EXIT_KEYBOARD_INTERRUPT == 130
EXIT_ERROR == 1

\* main is not run.
NoMain ==
  /\ args = <<>>
  /\ pc = "idle"
  /\ taqasta_ref = Unset
  /\ canasta_ref = Unset
  /\ stdout = <<>>
  /\ stderr = <<>>
  /\ exit_code = Unset
  /\ raised = Unset

\* No fetcher is made: an empty cache directory, nothing requested.
NoFetcher ==
  /\ cache = <<>>
  /\ network = <<>>
  /\ loads = <<>>
  /\ procs = <<>>

NoRun == NoMain /\ NoFetcher

\* ------------------------------------------------------------ generated inputs

c1 == <<"c", "1">>
c2 == <<"c", "2">>
b1 == <<"b", "1">>
b2 == <<"b", "2">>
s1 == <<"s", "1">>
v1 == <<"v", "1">>
v2 == <<"v", "2">>
some_field == <<"f">>
repo_r == <<"h", "/", "r">>
repo_r_git == <<"h", "/", "r", ".", "g", "i", "t">>
repo_q == <<"h", "/", "q">>
master == <<"m", "a", "s", "t", "e", "r">>
main == <<"m", "a", "i", "n">>
mw_1_43 == <<"1", ".", "4", "3">>

\* The values a generated attribute mapping gives each key.
ValuesOf(k) ==
  CASE k = commit -> {PyStr(c1), PyStr(c2)}
    [] k = repository ->
         {PyNone, PyStr(<<>>), PyStr(repo_r), PyStr(repo_r_git), PyStr(repo_q)}
    [] k = branch -> {PyStr(b1), PyStr(b2)}
    [] k = additional_steps ->
         { PyList(<<>>), PyList(<<composer_update>>), PyList(<<composer_update, s1>>),
           PyList(<<s1, composer_update>>), PyList(<<composer_update, composer_update>>) }
    [] k = some_field -> {PyStr(v1), PyStr(v2), PyInt(<<"1">>)}

ItemKeys == {commit, repository, branch, additional_steps, some_field}

\* The attribute mappings over the keys K.
DataOver(K) ==
  UNION {{d \in [D -> UNION {ValuesOf(k) : k \in D}] : \A k \in D : d[k] \in ValuesOf(k)} :
           D \in SUBSET K}

\* The orders in which a process may iterate a set of steps.
HashOrders == {<<composer_update, s1>>, <<s1, composer_update>>}

ItemName == <<"E", "x">>

Entry(nm, data) == [k \in {nm} |-> data]

\* A configuration tree: a section is a key of the tree when its list is not empty.
Tree(exts, skins, packages, repos) ==
  LET keys == (IF exts # <<>> THEN {"extensions"} ELSE {})
              \cup (IF skins # <<>> THEN {"skins"} ELSE {})
              \cup (IF packages # <<>> THEN {"packages"} ELSE {})
              \cup (IF repos # <<>> THEN {"repositories"} ELSE {})
  IN [k \in keys |->
        CASE k = "extensions" -> exts
          [] k = "skins" -> skins
          [] k = "packages" -> packages
          [] OTHER -> repos]

\* One item of the same name on both sides of `section`, the two attribute
\* mappings mentioning at most MaxKeys keys between them.
InitItemIn(section) ==
  \E K \in {X \in SUBSET ItemKeys : Cardinality(X) <= MaxKeys} :
    \E t \in DataOver(K), c \in DataOver(K) :
      /\ taqasta_yaml = [k \in {section} |-> <<Entry(ItemName, t)>>]
      /\ canasta_yaml = [k \in {section} |-> <<Entry(ItemName, c)>>]
      /\ mw_version = PyNone
      /\ result = <<>>
      /\ NoCall
      /\ NoRun

InitExt == InitItemIn("extensions")

InitSkin == InitItemIn("skins")

\* The lists of at most n members of S.
SeqsUpTo(n, S) == UNION {[1..k -> S] : k \in 0..n}

NameA == <<"A">>
NameB == <<"B">>
Name_a == <<"a">>

\* Attribute mappings of the generated trees.
d_c1 == (commit :> PyStr(c1))
d_c2 == (commit :> PyStr(c2))
d_r == (commit :> PyStr(c1)) @@ (repository :> PyStr(repo_r))
d_q == (repository :> PyStr(repo_q))
d_cu == (additional_steps :> PyList(<<composer_update>>))
d_x == (commit :> PyStr(c2)) @@ (repository :> PyStr(repo_r))
         @@ (additional_steps :> PyList(<<s1, composer_update>>))

EntriesOf(names, datas) == {Entry(nm, d) : nm \in names, d \in datas}

PackageEntries ==
  { (name :> PyStr(Name_a)),
    (name :> PyStr(NameA)) @@ (version :> PyStr(v1)),
    (name :> PyStr(Name_a)) @@ (version :> PyStr(v2)),
    (name :> PyStr(NameB)),
    (version :> PyStr(v1)) }

RepoEntries ==
  { (url :> PyStr(repo_r)), (url :> PyStr(repo_r_git)), (url :> PyStr(repo_q)),
    (name :> PyStr(NameA)) }

\* Item lists on both sides: names on one side only and on both, repeated
\* names, overwritten entries that need composer or name a repository.
InitTreeItems ==
  \E section \in {"extensions", "skins"} :
    \E t \in SeqsUpTo(MaxEntries, EntriesOf({NameA, NameB}, {d_c1, d_x})),
       c \in SeqsUpTo(MaxEntries, EntriesOf({NameB, Name_a}, {d_c1, d_x})) :
      /\ taqasta_yaml = [k \in {section} |-> t]
      /\ canasta_yaml = [k \in {section} |-> c]
      /\ mw_version = PyNone
      /\ result = <<>>
      /\ NoCall
      /\ NoRun

\* Packages of the base against the extensions of the reference.
InitTreePackages ==
  \E p \in SeqsUpTo(MaxAux, PackageEntries),
     c \in SeqsUpTo(MaxAux, EntriesOf({NameA, NameB}, {d_cu, d_c1})),
     mw \in {PyNone, PyStr(mw_1_43)} :
    /\ taqasta_yaml = Tree(<<>>, <<>>, p, <<>>)
    /\ canasta_yaml = Tree(c, <<>>, <<>>, <<>>)
    /\ mw_version = mw
    /\ result = <<>>
    /\ NoCall
    /\ NoRun

\* Repositories of the base against those the reference's items name.
InitTreeRepositories ==
  \E r \in SeqsUpTo(MaxAux, RepoEntries),
     c \in SeqsUpTo(MaxAux, {Entry(NameA, d_r), Entry(NameA, d_q), Entry(NameB, d_c1)}),
     section \in {"extensions", "skins"} :
    /\ taqasta_yaml = Tree(<<>>, <<>>, <<>>, r)
    /\ canasta_yaml = [k \in {section} |-> c]
    /\ mw_version = PyNone
    /\ result = <<>>
    /\ NoCall
    /\ NoRun

\* A tree compared with an identical copy of itself.
InitTreeSame ==
  \E e \in SeqsUpTo(MaxEntries, EntriesOf({NameA}, {d_c1, d_x})),
     s \in SeqsUpTo(1, EntriesOf({NameB}, {d_c1, d_r})),
     p \in SeqsUpTo(MaxAux, {(name :> PyStr(Name_a)), (name :> PyStr(NameB)) @@ (version :> PyStr(v1))}),
     r \in SeqsUpTo(MaxAux, {(url :> PyStr(repo_r_git)), (url :> PyStr(repo_q))}) :
    /\ taqasta_yaml = Tree(e, s, p, r)
    /\ canasta_yaml = taqasta_yaml
    /\ mw_version = PyNone
    /\ result = <<>>
    /\ NoCall
    /\ NoRun

\* One extension on both sides whose mappings differ in `repository` at most,
\* with and without `repositories` in the base.
InitTreeOne ==
  \E base \in {EmptyDict, d_c1, d_cu},
     t \in DataOver({repository}), c \in DataOver({repository}),
     r \in SeqsUpTo(MaxAux, {(url :> PyStr(repo_r_git)), (url :> PyStr(repo_q))}) :
    /\ taqasta_yaml = Tree(<<Entry(NameA, base @@ t)>>, <<>>, <<>>, r)
    /\ canasta_yaml = Tree(<<Entry(NameA, base @@ c)>>, <<>>, <<>>, <<>>)
    /\ mw_version = PyNone
    /\ result = <<>>
    /\ NoCall
    /\ NoRun

InitTree ==
  \/ InitTreeItems
  \/ InitTreePackages
  \/ InitTreeRepositories
  \/ InitTreeSame
  \/ InitTreeOne

Init == InitExt \/ InitSkin \/ InitTree

\* Mutant of trees_after_compare: `repository` is popped from the items of
\* the base instead of being read.
trees_after_popping_repository(t_yaml, c_yaml) ==
  << [sec \in DOMAIN t_yaml |->
        IF sec \in {"extensions", "skins"}
        THEN [i \in 1..Len(t_yaml[sec]) |->
                [n \in DOMAIN t_yaml[sec][i] |->
                   [k \in DOMAIN t_yaml[sec][i][n] \ {repository} |-> t_yaml[sec][i][n][k]]]]
        ELSE t_yaml[sec]],
     c_yaml >>

\* The two trees as the call leaves them. compare and the four functions it
\* calls only read them (.get, .items, in, indexing, set(), sorted(),
\* DeepDiff); what they append to, pop from and add to are lists and sets of
\* their own (output, differences, other_differences, the name and URL sets).
trees_after_compare(t_yaml, c_yaml) == <<t_yaml, c_yaml>>

\* diff_output = comparer.compare(taqasta_yaml, canasta_yaml, taqasta_ref,
\* canasta_ref, mw_version): one call, its report kept in `result`.
Compare ==
  /\ result = <<>>
  /\ \E hash_order \in HashOrders :
       result' = compare(taqasta_yaml, canasta_yaml, master, main, mw_version, hash_order)
  /\ taqasta_yaml' = trees_after_compare(taqasta_yaml, canasta_yaml)[1]
  /\ canasta_yaml' = trees_after_compare(taqasta_yaml, canasta_yaml)[2]
  /\ UNCHANGED <<mw_version, arguments, returned, main_vars, fetcher_vars>>

Next == Compare

Spec == Init /\ [][Next]_vars

\* One extension, one skin on both sides; whole trees.
SpecExt == InitExt /\ [][Next]_vars

SpecSkin == InitSkin /\ [][Next]_vars

SpecTree == InitTree /\ [][Next]_vars

\* ------------------------------------------------------------ reading the report

Called == result # <<>>

HasLine(fmt) == \E i \in 1..Len(result) : result[i].fmt = fmt

HasNamedLine(fmt, nm) == \E i \in 1..Len(result) : result[i] = Line(fmt, <<nm>>)

NoDifferences == HasLine("\nNo differences found!")

SectionHeaders == {"\nEXTENSIONS:", "\nSKINS:", "\nCOMPOSER PACKAGES:", "\nREPOSITORIES:"}

\* The attribute mappings of the item of the one-item trees.
ItemOf(yaml, section) == yaml[section][1][ItemName]
TExt == ItemOf(taqasta_yaml, "extensions")
CExt == ItemOf(canasta_yaml, "extensions")
TSkin == ItemOf(taqasta_yaml, "skins")
CSkin == ItemOf(canasta_yaml, "skins")

ExtListed ==
  /\ HasLine("  Extensions with different configurations:")
  /\ HasNamedLine("    ~ {}:", ItemName)

SkinListed ==
  /\ HasLine("  Skins with different configurations:")
  /\ HasNamedLine("    ~ {}:", ItemName)

FourKeys == {commit, repository, branch, additional_steps}

StepSet(d) == IF additional_steps \in DOMAIN d THEN SetOf(d[additional_steps].l) ELSE {}

\* One of the four explicit fields differs, as the specification words it.
FourDiffer(t, c) ==
  \/ Get(t, commit) # Get(c, commit)
  \/ ~_repos_are_equivalent(Get(t, repository), Get(c, repository))
  \/ Get(t, branch) # Get(c, branch)
  \/ StepSet(t) # StepSet(c)

\* The two values of a key differ structurally: lists are compared as sets.
ValueDiffers(a, b) ==
  IF a.t = "list" /\ b.t = "list" THEN SetOf(a.l) # SetOf(b.l) ELSE a # b

\* The keys at which two mappings differ structurally.
DifferingKeys(t, c) ==
  {k \in DOMAIN t \cup DOMAIN c :
     k \notin DOMAIN t \/ k \notin DOMAIN c \/ ValueDiffers(t[k], c[k])}

\* The structural difference at key k is more than a change of `repository`
\* between equivalent URLs.
CountsAsChange(t, c, k) ==
  \/ k \notin DOMAIN t
  \/ k \notin DOMAIN c
  \/ t[k].t # c[k].t
  \/ k # repository
  \/ ~_repos_are_equivalent(t[k], c[k])

\* The two mappings agree on every key but `repository`.
OnlyRepositoryDiffers(t, c) == DifferingKeys(t, c) \subseteq {repository}

FourFmts ==
  { "        Taqasta commit: {}", "        Canasta commit: {}",
    "        Taqasta repo: {}", "        Canasta repo: {}",
    "        Taqasta branch: {}", "        Canasta branch: {}",
    "        Only in Taqasta: {}", "        Only in Canasta: {}" }

OtherFmts ==
  { "          {}: '{}' -> '{}'", "          {}: type changed from {} to {}",
    "          Added: {}", "          Removed: {}",
    "          Added {} item(s) to iterable", "          Removed {} item(s) from iterable" }

\* ------------------------------------------------------------ C3

\* C3: an extension of both sides is listed under "Extensions with different
\* configurations:" if and only if one of the four explicit fields differs or
\* the structural diff holds a change other than a `repository` change
\* between equivalent URLs.
C3_ListedIffMeaningful ==
  Called =>
    (ExtListed <=>
       \/ FourDiffer(TExt, CExt)
       \/ \E k \in DifferingKeys(TExt, CExt) : CountsAsChange(TExt, CExt, k))

\* An extension listed for a structural change alone, none of the four fields differing.
C3_Witness ==
  /\ Called
  /\ ExtListed
  /\ ~FourDiffer(TExt, CExt)

\* ------------------------------------------------------------ C4

\* C4: an extension whose two mappings differ only in `repository`, the two
\* values equivalent (absent, null and empty string included), is not listed
\* and produces no repo lines.
C4_EquivalentRepositoryNotListed ==
  ( /\ Called
    /\ OnlyRepositoryDiffers(TExt, CExt)
    /\ _repos_are_equivalent(Get(TExt, repository), Get(CExt, repository)) )
  => ( /\ ~ExtListed
       /\ ~HasLine("        Taqasta repo: {}")
       /\ ~HasLine("        Canasta repo: {}") )

\* ------------------------------------------------------------ C5

\* A line of the "Other differences" of key k that follows every line of the
\* four explicit fields.
RenderedAfter(k) ==
  \E i \in 1..Len(result) :
    /\ result[i].fmt \in OtherFmts
    /\ result[i].args[1] = k
    /\ \A j \in 1..Len(result) : result[j].fmt \in FourFmts => j < i

\* C5 as claimed: every structural-diff entry of a listed extension outside
\* the four explicit fields is rendered after the four-field lines, also when
\* some of the four fields differ.
C5_OtherEntriesAlwaysRendered ==
  (Called /\ ExtListed) =>
    \A k \in DifferingKeys(TExt, CExt) \ FourKeys : RenderedAfter(k)

\* C5 as amended: the entries outside the four explicit fields are rendered,
\* under "Other differences:", exactly when none of the four fields differs;
\* when one of them differs no other entry is rendered.
C5_OtherEntriesRenderedUnlessFour ==
  (Called /\ ExtListed) =>
    IF FourDiffer(TExt, CExt)
    THEN \A i \in 1..Len(result) :
           result[i].fmt \notin OtherFmts \cup {"        Other differences:"}
    ELSE /\ HasLine("        Other differences:")
         /\ \A k \in DifferingKeys(TExt, CExt) \ FourKeys : RenderedAfter(k)

\* A listed extension with a differing explicit field and a differing other field.
C5_Witness ==
  /\ Called
  /\ ExtListed
  /\ FourDiffer(TExt, CExt)
  /\ DifferingKeys(TExt, CExt) \ FourKeys # {}

\* ------------------------------------------------------------ C6

\* The value shown for a repository or a branch, absent values by a label.
ShownOr(v, label) ==
  IF v.t = "NoneType" \/ (v.t = "str" /\ v.s = <<>>) THEN label ELSE v.s

ShownCommit(v) == IF v.t = "NoneType" THEN <<"N", "o", "n", "e">> ELSE v.s

\* The detail lines the four explicit fields call for, step lists in sorted order.
ExpectedDetail(t, c) ==
  (IF Get(t, commit) # Get(c, commit)
   THEN << Line("        Taqasta commit: {}", <<ShownCommit(Get(t, commit))>>),
           Line("        Canasta commit: {}", <<ShownCommit(Get(c, commit))>>) >>
   ELSE <<>>)
  \o (IF ~_repos_are_equivalent(Get(t, repository), Get(c, repository))
      THEN << Line("        Taqasta repo: {}", <<ShownOr(Get(t, repository), wikimedia)>>),
              Line("        Canasta repo: {}", <<ShownOr(Get(c, repository), wikimedia)>>) >>
      ELSE <<>>)
  \o (IF Get(t, branch) # Get(c, branch)
      THEN << Line("        Taqasta branch: {}", <<ShownOr(Get(t, branch), REL1_43)>>),
              Line("        Canasta branch: {}", <<ShownOr(Get(c, branch), REL1_43)>>) >>
      ELSE <<>>)
  \o (IF StepSet(t) \ StepSet(c) # {}
      THEN <<Line("        Only in Taqasta: {}", sorted(StepSet(t) \ StepSet(c)))>>
      ELSE <<>>)
  \o (IF StepSet(c) \ StepSet(t) # {}
      THEN <<Line("        Only in Canasta: {}", sorted(StepSet(c) \ StepSet(t)))>>
      ELSE <<>>)

\* The same line, the items of a list of steps taken in any order.
SameDetail(a, b) ==
  /\ a.fmt = b.fmt
  /\ IF a.fmt \in {"        Only in Taqasta: {}", "        Only in Canasta: {}"}
     THEN Len(a.args) = Len(b.args) /\ SetOf(a.args) = SetOf(b.args)
     ELSE a.args = b.args

\* C6: the detail lines of a listed extension are, in this order, the commit
\* pair iff the commits differ, the repository pair iff the repositories are
\* not equivalent (absent shown as wikimedia), the branch pair iff the
\* branches differ (absent shown as REL1_43), and the two set differences of
\* the steps, each when not empty.
C6_DetailLinesInOrder ==
  (Called /\ ExtListed) =>
    LET detail == SelectSeq(result, LAMBDA ln : ln.fmt \in FourFmts)
        expected == ExpectedDetail(TExt, CExt)
    IN /\ Len(detail) = Len(expected)
       /\ \A i \in 1..Len(expected) : SameDetail(detail[i], expected[i])

\* A listed extension whose repository and branch lines both show a label.
C6_Witness ==
  /\ Called
  /\ ExtListed
  /\ HasNamedLine("        Canasta repo: {}", wikimedia)
  /\ HasNamedLine("        Taqasta branch: {}", REL1_43)

\* ------------------------------------------------------------ C9

\* C9: a skin of both sides is listed under "Skins with different
\* configurations:" if and only if its two attribute mappings differ
\* structurally, whether or not the commits are equal.
C9_SkinListedIffDiffers ==
  Called => (SkinListed <=> DifferingKeys(TSkin, CSkin) # {})

\* A listed skin whose commits are equal.
C9_Witness ==
  /\ Called
  /\ SkinListed
  /\ Get(TSkin, commit) = Get(CSkin, commit)

\* ------------------------------------------------------------ C10

\* C10 as claimed: a skin with identical commit whose mappings differ only in
\* `repository`, between equivalent URLs, or do not differ, is not listed.
C10_CosmeticSkinNotListed ==
  ( /\ Called
    /\ OnlyRepositoryDiffers(TSkin, CSkin)
    /\ _repos_are_equivalent(Get(TSkin, repository), Get(CSkin, repository)) )
  => ~SkinListed

\* C10 as amended: a skin whose mappings agree on every key but `repository`
\* is unlisted exactly when they do not differ in `repository` either; a
\* difference of `repository`, also between equivalent URLs, lists the skin.
C10_SkinUnlistedIffIdentical ==
  (Called /\ OnlyRepositoryDiffers(TSkin, CSkin)) =>
    (SkinListed <=> repository \in DifferingKeys(TSkin, CSkin))

\* A listed skin whose mappings differ in equivalent repository URLs only.
C10_Witness ==
  /\ Called
  /\ SkinListed
  /\ OnlyRepositoryDiffers(TSkin, CSkin)
  /\ Truthy(Get(TSkin, repository))
  /\ _repos_are_equivalent(Get(TSkin, repository), Get(CSkin, repository))

\* ------------------------------------------------------------ reading whole trees

\* The names and the attribute mappings of every entry of an item section.
NamesIn(yaml, section) == {e[1] : e \in entries_of(Section(yaml, section))}

Headings ==
  { "  Extensions only in Taqasta:", "  Extensions only in Canasta:",
    "  Extensions with different configurations:",
    "  Skins only in Taqasta:", "  Skins only in Canasta:",
    "  Skins with different configurations:",
    "  Composer packages only in Taqasta:",
    "  Extensions requiring composer update only in Canasta:",
    "  Custom repositories only in Taqasta:", "  Custom repositories only in Canasta:" }

\* The heading that line i of the report stands under.
HeadingOf(i) ==
  LET hs == {j \in 1..i : result[j].fmt \in Headings}
  IN IF hs = {} THEN "" ELSE result[CHOOSE j \in hs : \A h \in hs : h <= j].fmt

\* The names listed under a heading, in the order of the report.
NamesUnder(heading) ==
  LET idx == SelectSeq([i \in 1..Len(result) |-> i],
                       LAMBDA i : /\ result[i].fmt \in {"    + {}", "    - {}", "    ~ {}:"}
                                  /\ HeadingOf(i) = heading)
  IN [n \in 1..Len(idx) |-> result[idx[n]].args[1]]

Ascends(names) == \A i, j \in 1..Len(names) : i < j => StrLess(names[i], names[j])

\* The names of one item section are partitioned by the three headings.
Partitioned(section, only_t, only_c, different) ==
  LET tn == NamesIn(taqasta_yaml, section)
      cn == NamesIn(canasta_yaml, section)
  IN /\ SetOf(NamesUnder(only_t)) = tn \ cn
     /\ SetOf(NamesUnder(only_c)) = cn \ tn
     /\ SetOf(NamesUnder(different)) \subseteq tn \cap cn
     /\ Ascends(NamesUnder(only_t))
     /\ Ascends(NamesUnder(only_c))
     /\ Ascends(NamesUnder(different))

\* ------------------------------------------------------------ C7

\* C7: every extension name and every skin name of either side falls in
\* exactly one of only-in-Taqasta, only-in-Canasta, reported-different and
\* omitted: the only-in lists are the two set differences of the key sets in
\* ascending order, and the names reported different are common names, each
\* listed once.
C7_NamesPartitioned ==
  Called =>
    /\ Partitioned("extensions", "  Extensions only in Taqasta:",
                   "  Extensions only in Canasta:",
                   "  Extensions with different configurations:")
    /\ Partitioned("skins", "  Skins only in Taqasta:", "  Skins only in Canasta:",
                   "  Skins with different configurations:")

\* A report with an extension under each of the three headings.
C7_Witness ==
  /\ Called
  /\ NamesUnder("  Extensions only in Taqasta:") # <<>>
  /\ NamesUnder("  Extensions only in Canasta:") # <<>>
  /\ NamesUnder("  Extensions with different configurations:") # <<>>

\* ------------------------------------------------------------ C8

\* The list with only the last entry of every repeated name kept.
LastEntries(items) ==
  LET kept == SelectSeq([i \in 1..Len(items) |-> i],
                        LAMBDA i : \A j \in (i + 1)..Len(items) :
                                     DOMAIN items[j] \cap DOMAIN items[i] = {})
  IN [n \in 1..Len(kept) |-> items[kept[n]]]

LastEntriesTree(yaml) ==
  [k \in DOMAIN yaml |->
     IF k \in {"extensions", "skins"} THEN LastEntries(yaml[k]) ELSE yaml[k]]

\* C8: the report of trees in which a name is repeated is the report of the
\* trees that keep only the last entry of each repeated name.
C8_LastWins ==
  Called =>
    \E hash_order \in HashOrders :
      result = compare(LastEntriesTree(taqasta_yaml), LastEntriesTree(canasta_yaml),
                       master, main, mw_version, hash_order)

\* ------------------------------------------------------------ C1

\* The lowercased names of the `packages` entries of a tree.
PackageNames(yaml) ==
  LET ps == Section(yaml, "packages")
  IN {lower(ps[i][name].s) : i \in {j \in 1..Len(ps) : name \in DOMAIN ps[j]}}

\* The lowercased names of the extension entries of a tree whose additional
\* steps hold "composer update".
ComposerNames(yaml) ==
  LET es == Section(yaml, "extensions")
  IN {lower(nm) : nm \in {n \in NamesIn(yaml, "extensions") :
                            \E i \in 1..Len(es) :
                              /\ n \in DOMAIN es[i]
                              /\ additional_steps \in DOMAIN es[i][n]
                              /\ composer_update \in SetOf(es[i][n][additional_steps].l)}}

\* The URLs of the `repositories` entries of a tree.
ListedUrls(yaml) ==
  LET rs == Section(yaml, "repositories")
  IN {rs[i][url] : i \in {j \in 1..Len(rs) : url \in DOMAIN rs[j]}}

\* The `repository` values of the extension and skin entries of a tree.
ItemUrls(yaml) ==
  {v \in ValuesOf(repository) :
     \E section \in {"extensions", "skins"} :
       \E i \in 1..Len(Section(yaml, section)) :
         \E n \in DOMAIN yaml[section][i] :
           /\ repository \in DOMAIN yaml[section][i][n]
           /\ yaml[section][i][n][repository] = v}

\* Every member of `urls` has an equivalent among `others`.
Covered(urls, others) == \A u \in urls : \E o \in others : _repos_are_equivalent(u, o)

\* C1 as stated: a tree compared with an identical copy of itself gives
\* "No differences found!" and none of the four section headers.
C1_SameTreeNoDifferences ==
  (Called /\ taqasta_yaml = canasta_yaml) =>
    /\ NoDifferences
    /\ \A h \in SectionHeaders : ~HasLine(h)

\* C1 amended: a tree compared with an identical copy of itself never gives the
\* EXTENSIONS or the SKINS section; COMPOSER PACKAGES is absent exactly when the
\* lowercased package names are the lowercased names of the extension entries
\* that need "composer update"; REPOSITORIES is absent exactly when every URL
\* under `repositories` is equivalent to the `repository` of some extension or
\* skin entry and conversely; "No differences found!" is given exactly when no
\* section is.
C1_SameTreeSections ==
  (Called /\ taqasta_yaml = canasta_yaml) =>
    /\ ~HasLine("\nEXTENSIONS:")
    /\ ~HasLine("\nSKINS:")
    /\ ~HasLine("\nCOMPOSER PACKAGES:")
         <=> PackageNames(taqasta_yaml) = ComposerNames(taqasta_yaml)
    /\ ~HasLine("\nREPOSITORIES:")
         <=> /\ Covered(ListedUrls(taqasta_yaml), ItemUrls(taqasta_yaml))
             /\ Covered(ItemUrls(taqasta_yaml), ListedUrls(taqasta_yaml))
    /\ NoDifferences <=> \A h \in SectionHeaders : ~HasLine(h)

\* A tree with extensions, packages and repositories whose comparison with
\* itself gives "No differences found!".
C1_Witness ==
  /\ Called
  /\ taqasta_yaml = canasta_yaml
  /\ {"extensions", "packages", "repositories"} \subseteq DOMAIN taqasta_yaml
  /\ NoDifferences

\* ------------------------------------------------------------ C2

\* Each side has one extension, of the same name, and the two attribute
\* mappings differ in `repository` only, the two URLs being equivalent.
OneExtensionEquivalentRepository ==
  /\ "extensions" \in DOMAIN taqasta_yaml
  /\ DOMAIN taqasta_yaml \subseteq {"extensions", "repositories"}
  /\ DOMAIN canasta_yaml = {"extensions"}
  /\ Len(taqasta_yaml["extensions"]) = 1
  /\ Len(canasta_yaml["extensions"]) = 1
  /\ DOMAIN taqasta_yaml["extensions"][1] = DOMAIN canasta_yaml["extensions"][1]
  /\ LET nm == CHOOSE n \in DOMAIN taqasta_yaml["extensions"][1] : TRUE
         td == taqasta_yaml["extensions"][1][nm]
         cd == canasta_yaml["extensions"][1][nm]
     IN /\ DOMAIN td = DOMAIN cd
        /\ repository \in DOMAIN td
        /\ \A k \in DOMAIN td \ {repository} : td[k] = cd[k]
        /\ td[repository] # cd[repository]
        /\ Truthy(td[repository])
        /\ Truthy(cd[repository])
        /\ _repos_are_equivalent(td[repository], cd[repository])

\* C2 as stated: two trees of one extension each, the same but for equivalent
\* repository URLs, give "No differences found!".
C2_EquivalentRepositoryNoDifferences ==
  (Called /\ OneExtensionEquivalentRepository /\ DOMAIN taqasta_yaml = {"extensions"})
    => NoDifferences

\* C2 amended: such trees never give the EXTENSIONS section, and give
\* "No differences found!" exactly when the base lists `repositories`, every
\* URL listed is equivalent to the extension's repository, and the extension
\* does not need "composer update".
C2_EquivalentRepositoryNoExtensions ==
  (Called /\ OneExtensionEquivalentRepository) =>
    /\ ~HasLine("\nEXTENSIONS:")
    /\ NoDifferences
         <=> /\ ListedUrls(taqasta_yaml) # {}
             /\ Covered(ListedUrls(taqasta_yaml), ItemUrls(canasta_yaml))
             /\ ComposerNames(canasta_yaml) = {}

\* Such trees, the base listing a repository, giving "No differences found!".
C2_Witness ==
  /\ Called
  /\ OneExtensionEquivalentRepository
  /\ "repositories" \in DOMAIN taqasta_yaml
  /\ NoDifferences

\* ------------------------------------------------------------ C11

\* A line under "Other differences:" for the structural change at key k: a
\* line naming k, one naming an item of the list at k, or a count of items.
OtherLineOf(k) ==
  \E i \in 1..Len(result) :
    /\ result[i].fmt \in OtherFmts
    /\ \E h \in 1..(i - 1) : result[h].fmt = "        Other differences:"
    /\ \/ result[i].args[1] = k
       \/ /\ k = additional_steps
          /\ \/ result[i].fmt \in {"          Added {} item(s) to iterable",
                                   "          Removed {} item(s) from iterable"}
             \/ startswith(result[i].args[1], k \o <<"[">>)

\* The commit pair of a listed skin stands right after its name.
SkinCommitPair ==
  \E i \in 1..Len(result) :
    /\ i + 2 <= Len(result)
    /\ result[i] = Line("    ~ {}:", <<ItemName>>)
    /\ result[i + 1] = Line("        Taqasta commit: {}", <<ShownCommit(Get(TSkin, commit))>>)
    /\ result[i + 2] = Line("        Canasta commit: {}", <<ShownCommit(Get(CSkin, commit))>>)

\* C11 as stated: a listed skin shows the commit pair whenever the commits
\* differ, and every structural change of a field other than commit under
\* "Other differences:", also when the commits differ.
C11_SkinOtherAlwaysRendered ==
  (Called /\ SkinListed) =>
    /\ Get(TSkin, commit) # Get(CSkin, commit) => SkinCommitPair
    /\ \A k \in DifferingKeys(TSkin, CSkin) \ {commit} : OtherLineOf(k)

\* C11 amended: a listed skin shows the commit pair exactly when the commits
\* differ, and then nothing else; when the commits are equal it shows
\* "Other differences:" with every structural change of the skin.
C11_SkinOtherOnlyWhenCommitsEqual ==
  (Called /\ SkinListed) =>
    IF Get(TSkin, commit) # Get(CSkin, commit)
    THEN /\ SkinCommitPair
         /\ \A i \in 1..Len(result) :
              result[i].fmt \notin OtherFmts \cup {"        Other differences:"}
    ELSE /\ ~HasLine("        Taqasta commit: {}")
         /\ ~HasLine("        Canasta commit: {}")
         /\ HasLine("        Other differences:")
         /\ \A k \in DifferingKeys(TSkin, CSkin) : OtherLineOf(k)

\* A listed skin whose commits differ and that differs in another field too.
C11_Witness ==
  /\ Called
  /\ SkinListed
  /\ Get(TSkin, commit) # Get(CSkin, commit)
  /\ DifferingKeys(TSkin, CSkin) \ {commit} # {}

\* ------------------------------------------------------------ _repos_are_equivalent called on its own

\* True and False
PyBool(b) ==
  [t |-> "bool", s |-> IF b THEN <<"T", "r", "u", "e">> ELSE <<"F", "a", "l", "s", "e">>,
   l |-> <<>>]

\* The compare call is not part of the run.
NoTrees ==
  /\ taqasta_yaml = EmptyDict
  /\ canasta_yaml = EmptyDict
  /\ mw_version = PyNone
  /\ result = <<>>

\* The generated URLs: None, and the strings made of at most MaxTokens tokens.
UrlTokens == {<<"r">>, <<"/">>, <<".", "g", "i", "t">>}

UrlValues == {PyNone} \cup {PyStr(Concat(ts)) : ts \in SeqsUpTo(MaxTokens, UrlTokens)}

InitUrl ==
  \E repo1 \in UrlValues, repo2 \in UrlValues :
    /\ arguments = <<repo1, repo2>>
    /\ returned = Unset
    /\ NoTrees
    /\ NoRun

\* self._repos_are_equivalent(repo1, repo2)
ReposAreEquivalent ==
  /\ returned = Unset
  /\ Len(arguments) = 2
  /\ returned' = PyBool(_repos_are_equivalent(arguments[1], arguments[2]))
  /\ UNCHANGED <<taqasta_yaml, canasta_yaml, mw_version, result, arguments,
                 main_vars, fetcher_vars>>

NextUrl == ReposAreEquivalent

SpecUrl == InitUrl /\ [][NextUrl]_vars

Returned == returned # Unset

\* ------------------------------------------------------------ C12

\* None or the empty string.
IsEmpty(v) == v.t = "NoneType" \/ (v.t = "str" /\ v.s = <<>>)

\* One trailing "/" removed if present, then one trailing ".git" if present.
Normal(u) ==
  LET a == IF Len(u) >= 1 /\ u[Len(u)] = "/" THEN SubSeq(u, 1, Len(u) - 1) ELSE u
  IN IF Len(a) >= 4 /\ SubSeq(a, Len(a) - 3, Len(a)) = <<".", "g", "i", "t">>
     THEN SubSeq(a, 1, Len(a) - 4)
     ELSE a

\* C12: _repos_are_equivalent(a, b) is true exactly when both are empty, or
\* neither is empty and their normal forms are equal; it is false when exactly
\* one is empty, and true of every non-empty URL and itself.
C12_EquivalenceIsNormalEquality ==
  Returned =>
    LET a == arguments[1]
        b == arguments[2]
    IN /\ returned = PyBool(\/ IsEmpty(a) /\ IsEmpty(b)
                            \/ /\ ~IsEmpty(a)
                               /\ ~IsEmpty(b)
                               /\ Normal(a.s) = Normal(b.s))
       /\ (IsEmpty(a) # IsEmpty(b)) => returned = PyBool(FALSE)
       /\ (a = b /\ ~IsEmpty(a)) => returned = PyBool(TRUE)

\* "r.git/" found equivalent to "r".
C12_Witness ==
  /\ Returned
  /\ arguments = <<PyStr(<<"r", ".", "g", "i", "t", "/">>), PyStr(<<"r">>)>>
  /\ returned = PyBool(TRUE)

\* ------------------------------------------------------------ C13

\* C13: _repos_are_equivalent(u, v) is _repos_are_equivalent(v, u).
C13_EquivalenceSymmetric ==
  Returned => returned = PyBool(_repos_are_equivalent(arguments[2], arguments[1]))

\* Two different URLs found equivalent, the second the longer one.
C13_Witness ==
  /\ Returned
  /\ returned = PyBool(TRUE)
  /\ ~IsEmpty(arguments[1])
  /\ Len(arguments[1].s) < Len(arguments[2].s)

\* ------------------------------------------------------------ repositories of the base against the items of the reference

d_none == (repository :> PyNone)

\* The `repositories` of the base against reference items that name a
\* repository, name none, or give `repository` no value.
InitRepos ==
  \E r \in SeqsUpTo(MaxAux, RepoEntries),
     c \in SeqsUpTo(MaxAux, {Entry(NameA, d_r), Entry(NameA, d_q), Entry(NameB, d_c1),
                             Entry(NameB, d_none)}),
     section \in {"extensions", "skins"} :
    /\ taqasta_yaml = Tree(<<>>, <<>>, <<>>, r)
    /\ canasta_yaml = [k \in {section} |-> c]
    /\ mw_version = PyNone
    /\ result = <<>>
    /\ NoCall
    /\ NoRun

SpecRepos == InitRepos /\ [][Next]_vars

\* ------------------------------------------------------------ C14

\* The values of `urls` that no value of `others` is equivalent to, formatted.
Unmatched(urls, others) ==
  {Format(u) : u \in {x \in urls : ~\E o \in others : _repos_are_equivalent(x, o)}}

LinesUnder(heading) ==
  LET idx == SelectSeq([i \in 1..Len(result) |-> i],
                       LAMBDA i : result[i].fmt \notin Headings \cup SectionHeaders
                                  /\ HeadingOf(i) = heading)
  IN [n \in 1..Len(idx) |-> result[idx[n]]]

\* C15: the names under "Extensions requiring composer update only in
\* Canasta:" are the lowercased names of the reference extensions that need
\* "composer update" and that no base package is named like, case ignored;
\* the packages under "Composer packages only in Taqasta:" are those whose
\* lowercased name is no such extension's.
C15_PackagesMatchedIgnoringCase ==
  Called =>
    LET only_t == LinesUnder("  Composer packages only in Taqasta:")
        only_c == NamesUnder("  Extensions requiring composer update only in Canasta:")
    IN /\ SetOf(only_c) = ComposerNames(canasta_yaml) \ PackageNames(taqasta_yaml)
       /\ {lower(only_t[i].args[1]) : i \in 1..Len(only_t)}
            = PackageNames(taqasta_yaml) \ ComposerNames(canasta_yaml)

\* A package named "a" matched by the extension "A", the extension "B" unmatched.
C15_Witness ==
  /\ Called
  /\ Name_a \in PackageNames(taqasta_yaml) \cap ComposerNames(canasta_yaml)
  /\ NameA \in NamesIn(canasta_yaml, "extensions")
  /\ NameA \notin NamesIn(taqasta_yaml, "extensions")
  /\ NamesUnder("  Extensions requiring composer update only in Canasta:") = <<lower(NameB)>>

\* ------------------------------------------------------------ C16

\* C16: every base package entry that has a `name` whose lowercased form no
\* reference extension needing "composer update" bears is rendered under
\* "Composer packages only in Taqasta:" as "+ <name> @ <version>", the name in
\* its original case and the version the entry's own or "dev", also when
\* several entries share a name or differ in its case only.
C16_EveryPackageRendered ==
  Called =>
    LET ps == Section(taqasta_yaml, "packages")
        only_t == LinesUnder("  Composer packages only in Taqasta:")
    IN \A i \in 1..Len(ps) :
         (name \in DOMAIN ps[i] /\ lower(ps[i][name].s) \notin ComposerNames(canasta_yaml))
           => \E n \in 1..Len(only_t) :
                only_t[n] = Line("    + {} @ {}",
                                 <<ps[i][name].s, Format(GetOr(ps[i], version, PyStr(dev)))>>)

\* ------------------------------------------------------------ whole reports

\* Trees in which each of the four sections may or may not differ, compared
\* with and without a MediaWiki version.
InitReport ==
  \E e_t \in {<<>>, <<Entry(NameA, d_c1)>>},
     e_c \in {<<>>, <<Entry(NameA, d_c1)>>, <<Entry(NameA, d_c2)>>, <<Entry(NameA, d_cu)>>,
              <<Entry(NameA, d_r)>>},
     s_t \in {<<>>, <<Entry(NameB, d_c1)>>, <<Entry(NameB, d_c2)>>},
     s_c \in {<<>>, <<Entry(NameB, d_c1)>>, <<Entry(NameB, d_c2)>>},
     p \in SeqsUpTo(1, {(name :> PyStr(Name_a)), (name :> PyStr(NameB))}),
     r \in SeqsUpTo(1, {(url :> PyStr(repo_r_git)), (url :> PyStr(repo_q))}),
     mw \in {PyNone, PyStr(mw_1_43)} :
    /\ taqasta_yaml = Tree(e_t, s_t, p, r)
    /\ canasta_yaml = Tree(e_c, s_c, <<>>, <<>>)
    /\ mw_version = mw
    /\ result = <<>>
    /\ NoCall
    /\ NoRun

SpecReport == InitReport /\ [][Next]_vars

\* ------------------------------------------------------------ C17

\* The header of each section, in the order of the report.
HeaderOrder == <<"\nEXTENSIONS:", "\nSKINS:", "\nCOMPOSER PACKAGES:", "\nREPOSITORIES:">>

\* Whether the body of a section is empty, for the trees compared.
BodyEmpty(header) ==
  CASE header = "\nEXTENSIONS:" ->
         \A h \in HashOrders :
           _compare_extensions(Section(taqasta_yaml, "extensions"),
                               Section(canasta_yaml, "extensions"), h) = <<>>
    [] header = "\nSKINS:" ->
         _compare_skins(Section(taqasta_yaml, "skins"), Section(canasta_yaml, "skins")) = <<>>
    [] header = "\nCOMPOSER PACKAGES:" ->
         _compare_packages(Section(taqasta_yaml, "packages"),
                           Section(canasta_yaml, "extensions")) = <<>>
    [] OTHER ->
         _compare_repositories(Section(taqasta_yaml, "repositories"), canasta_yaml) = <<>>

\* The lines of the report that hold a section header, in the order of the report.
HeadersShown ==
  LET hs == SelectSeq(result, LAMBDA ln : ln.fmt \in SectionHeaders)
  IN [i \in 1..Len(hs) |-> hs[i].fmt]

\* C17: the first line names the two references; a "MediaWiki Version:" line
\* is present iff a version was given; each section header is present iff the
\* body of its section is not empty, the headers present standing in the order
\* EXTENSIONS, SKINS, COMPOSER PACKAGES, REPOSITORIES; "No differences
\* found!" is present iff the four bodies are empty.
C17_ReportAssembled ==
  Called =>
    /\ result[1] = Line("Comparing Taqasta ({}) vs Canasta ({})", <<master, main>>)
    /\ HasLine("MediaWiki Version: {}") <=> mw_version # PyNone
    /\ mw_version # PyNone => result[2] = Line("MediaWiki Version: {}", <<mw_version.s>>)
    /\ HeadersShown = SelectSeq(HeaderOrder, LAMBDA h : ~BodyEmpty(h))
    /\ NoDifferences <=> \A h \in SectionHeaders : BodyEmpty(h)
    /\ NoDifferences => HeadersShown = <<>>

\* A report with the version line and the four sections.
C17_Witness ==
  /\ Called
  /\ HasLine("MediaWiki Version: {}")
  /\ HeadersShown = HeaderOrder

\* ------------------------------------------------------------ C18

\* C18: the report is determined by the arguments of compare: it is the one
\* report a call with these trees, refs and version gives, whatever order the
\* process iterates a set of steps in.
C18_ReportDetermined ==
  Called =>
    \A hash_order \in HashOrders :
      result = compare(taqasta_yaml, canasta_yaml, master, main, mw_version, hash_order)

\* ------------------------------------------------------------ C19

PyFloat(x) == [t |-> "float", s |-> x, l |-> <<>>]

mediawiki_version ==
  <<"m", "e", "d", "i", "a", "w", "i", "k", "i", "_", "v", "e", "r", "s", "i", "o", "n">>
mw_version_key == <<"m", "w", "_", "v", "e", "r", "s", "i", "o", "n">>
mediawiki == <<"m", "e", "d", "i", "a", "w", "i", "k", "i">>

version_keys == <<version, mediawiki_version, mw_version_key, mediawiki>>

DEFAULT_MW_VERSION == <<"1", ".", "4", "3">>

\* s.split(".")
RECURSIVE split(_)
split(s) ==
  LET i == find(s, <<".">>)
  IN IF i = -1 THEN <<s>> ELSE <<Slice(s, 0, i)>> \o split(SliceFrom(s, i + 1))

\* What the body of the loop returns for one value, <<>> when it returns nothing.
version_from(v) ==
  IF v.t = "str"
  THEN LET version_parts == split(v.s)
       IN IF Len(version_parts) >= 2
          THEN <<version_parts[1] \o <<".">> \o version_parts[2]>>
          ELSE <<>>
  ELSE IF v.t \in {"int", "float"}
  THEN IF find(v.s, <<".">>) # -1 THEN <<v.s>> ELSE <<v.s \o <<".", "0">>>>
  ELSE <<>>

\* The loop over the keys not yet looked at.
RECURSIVE extract_version(_, _)
extract_version(data, keys) ==
  IF keys = <<>> THEN DEFAULT_MW_VERSION
  ELSE IF Head(keys) \in DOMAIN data /\ version_from(data[Head(keys)]) # <<>>
  THEN version_from(data[Head(keys)])[1]
  ELSE extract_version(data, Tail(keys))

\* Mutant of _extract_version_from_yaml: the default is returned as soon as the
\* first key present has a value that gives no version.
_extract_version_first_key_only(data) ==
  LET present == SelectSeq(version_keys, LAMBDA k : k \in DOMAIN data)
  IN IF present = <<>> \/ version_from(data[present[1]]) = <<>>
     THEN DEFAULT_MW_VERSION
     ELSE version_from(data[present[1]])[1]

_extract_version_from_yaml(data) == extract_version(data, version_keys)

\* The values a generated base configuration gives a version key.
VersionValues ==
  { PyStr(<<"1", ".", "4", "3", ".", "0">>), PyStr(<<"1", ".", "3", "9">>), PyStr(<<"1">>),
    PyStr(<<>>), PyInt(<<"1", "4", "3">>), PyFloat(<<"1", ".", "4", "4">>), PyNone }

InitVersion ==
  \E K \in {X \in SUBSET SetOf(version_keys) : Cardinality(X) <= MaxVersionKeys} :
    \E data \in [K -> VersionValues] :
      /\ arguments = <<data>>
      /\ returned = Unset
      /\ NoTrees
      /\ NoRun

\* mw_version = fetcher._detect_mediawiki_version(taqasta_yaml)
DetectMediawikiVersion ==
  /\ returned = Unset
  /\ Len(arguments) = 1
  /\ returned' = PyStr(_extract_version_from_yaml(arguments[1]))
  /\ UNCHANGED <<taqasta_yaml, canasta_yaml, mw_version, result, arguments,
                 main_vars, fetcher_vars>>

NextVersion == DetectMediawikiVersion

SpecVersion == InitVersion /\ [][NextVersion]_vars

\* ------------------------------------------------------------ C20

\* The places of the dots of a string.
Dots(s) == {i \in 1..Len(s) : s[i] = "."}

\* A value that gives a version: a string of two components or more, or a number.
Usable(v) == (v.t = "str" /\ Dots(v.s) # {}) \/ v.t \in {"int", "float"}

\* The version a usable value gives: the string up to its second dot, or the
\* number as a string, with ".0" when it has no decimal point.
VersionOf(v) ==
  IF v.t = "str"
  THEN IF Cardinality(Dots(v.s)) >= 2
       THEN SubSeq(v.s, 1, (CHOOSE i \in Dots(v.s) :
                              Cardinality({j \in Dots(v.s) : j < i}) = 1) - 1)
       ELSE v.s
  ELSE IF Dots(v.s) # {} THEN v.s ELSE v.s \o <<".", "0">>

\* The version keys of the configuration, in the order they are looked at.
PresentKeys(data) == SelectSeq(version_keys, LAMBDA k : k \in DOMAIN data)

\* C20 as stated: only the first version key present is inspected; the result
\* is the version of its value, or "1.43" when no key is present or that
\* value is unusable.
C20_FirstPresentKeyDecides ==
  Returned =>
    LET data == arguments[1]
        present == PresentKeys(data)
    IN returned = PyStr(IF present # <<>> /\ Usable(data[present[1]])
                        THEN VersionOf(data[present[1]])
                        ELSE DEFAULT_MW_VERSION)

\* C20 amended: the keys are inspected in order and the first one present
\* whose value is usable decides; the result is "1.43" when no key present has
\* a usable value.
C20_FirstUsableKeyDecides ==
  Returned =>
    LET data == arguments[1]
        usable == SelectSeq(PresentKeys(data), LAMBDA k : Usable(data[k]))
    IN returned = PyStr(IF usable # <<>> THEN VersionOf(data[usable[1]])
                        ELSE DEFAULT_MW_VERSION)

\* A version taken from the second key present, the first one being unusable.
C20_Witness ==
  /\ Returned
  /\ Len(PresentKeys(arguments[1])) = 2
  /\ ~Usable(arguments[1][PresentKeys(arguments[1])[1]])
  /\ returned = PyStr(<<"1", "4", "3", ".", "0">>)

\* ------------------------------------------------------------ _clean_diff_path called on its own

\* The pieces the generated paths are made of.
PathHeads ==
  { <<>>, <<"r", "o", "o", "t">>, <<"r", "o", "o", "t", "[", "'">>,
    <<"r", "o", "o", "t", "[", "\"">> }

PathTokens ==
  { <<"f">>, <<"'", "]">>, <<"\"", "]">>, <<"[", "0", "]">>, <<".">>, <<"[", "'">> }

PathValues ==
  {h \o Concat(ts) : h \in PathHeads, ts \in SeqsUpTo(MaxPathTokens, PathTokens)}

InitPath ==
  \E path \in PathValues :
    /\ arguments = <<PyStr(path)>>
    /\ returned = Unset
    /\ NoTrees
    /\ NoRun

\* clean_path = self._clean_diff_path(path)
CleanDiffPath ==
  /\ returned = Unset
  /\ Len(arguments) = 1
  /\ returned' = _clean_diff_path(arguments[1].s)
  /\ UNCHANGED <<taqasta_yaml, canasta_yaml, mw_version, result, arguments,
                 main_vars, fetcher_vars>>

NextPath == CleanDiffPath

SpecPath == InitPath /\ [][NextPath]_vars

\* ------------------------------------------------------------ C26

\* The 0-based index of the first occurrence of p in s at index a or later, or -1.
FirstFrom(s, p, a) ==
  LET hits == {i \in a..(Len(s) - Len(p)) : SubSeq(s, i + 1, i + Len(p)) = p}
  IN IF hits = {} THEN -1 ELSE CHOOSE i \in hits : \A j \in hits : i <= j

\* The first applicable rule of the claim, applied to a path.
FirstRule(path) ==
  LET root == <<"r", "o", "o", "t">>
      single == FirstFrom(path, <<"'", "]">>, 6)
      double == FirstFrom(path, <<"\"", "]">>, 6)
  IN IF startswith(path, root \o <<"[", "'">>) /\ single # -1
     THEN SubSeq(path, 7, single) \o SubSeq(path, single + 3, Len(path))
     ELSE IF startswith(path, root \o <<"[", "\"">>) /\ double # -1
     THEN SubSeq(path, 7, double) \o SubSeq(path, double + 3, Len(path))
     ELSE IF startswith(path, root \o <<"[">>) /\ path[Len(path)] = "]"
     THEN SubSeq(path, 6, Len(path) - 1)
     ELSE IF startswith(path, root \o <<".">>)
     THEN SubSeq(path, 6, Len(path))
     ELSE IF startswith(path, root)
     THEN SubSeq(path, 5, Len(path))
     ELSE path

\* C26: _clean_diff_path returns, for every path string, the string the first
\* applicable rule gives: root['X']rest and root["X"]rest give Xrest, cut at
\* the first closing quote-bracket; root[N] gives N; root.X gives X; any
\* other string that starts with root loses its first four characters; a
\* string that does not start with root is returned as it is. The result is
\* always a string.
C26_PathCleanedByFirstRule ==
  Returned =>
    /\ returned.t = "str"
    /\ returned = PyStr(FirstRule(arguments[1].s))

\* ------------------------------------------------------------ _repos_are_equivalent on three URLs

\* The URLs of a chain: None, and the strings of at most MaxChainTokens tokens.
ChainValues == {PyNone} \cup {PyStr(Concat(ts)) : ts \in SeqsUpTo(MaxChainTokens, UrlTokens)}

InitChain ==
  \E repo1 \in ChainValues, repo2 \in ChainValues, repo3 \in ChainValues :
    /\ arguments = <<repo1, repo2, repo3>>
    /\ returned = Unset
    /\ NoTrees
    /\ NoRun

\* _repos_are_equivalent called on the pairs (1, 2), (2, 3) and (1, 3).
ReposAreEquivalentChain ==
  /\ returned = Unset
  /\ Len(arguments) = 3
  /\ returned' = PyList(<<PyBool(_repos_are_equivalent(arguments[1], arguments[2])),
                          PyBool(_repos_are_equivalent(arguments[2], arguments[3])),
                          PyBool(_repos_are_equivalent(arguments[1], arguments[3]))>>)
  /\ UNCHANGED <<taqasta_yaml, canasta_yaml, mw_version, result, arguments,
                 main_vars, fetcher_vars>>

NextChain == ReposAreEquivalentChain

SpecChain == InitChain /\ [][NextChain]_vars

\* ------------------------------------------------------------ C27

\* C27: URL equivalence is transitive: when the first URL is equivalent to
\* the second and the second to the third, the first is equivalent to the
\* third, for None, "" and every string, those whose normal form is empty
\* ("/", ".git") included; and every value is equivalent to itself.
C27_EquivalenceTransitive ==
  Returned =>
    /\ (returned.l[1] = PyBool(TRUE) /\ returned.l[2] = PyBool(TRUE)
          => returned.l[3] = PyBool(TRUE))
    /\ (arguments[1] = arguments[2] => returned.l[1] = PyBool(TRUE))

\* A chain of three different URLs whose normal form is empty.
C27_Witness ==
  /\ Returned
  /\ arguments = <<PyStr(<<"/">>), PyStr(<<".", "g", "i", "t">>),
                   PyStr(<<".", "g", "i", "t", "/">>)>>
  /\ returned.l = <<PyBool(TRUE), PyBool(TRUE), PyBool(TRUE)>>

\* ------------------------------------------------------------ items listed as different

\* A commit and a repository URL written with ".git".
d_rg == (commit :> PyStr(c1)) @@ (repository :> PyStr(repo_r_git))

\* Two items of one section on both sides, with mappings that are equal,
\* differ in a field shown on its own, in another key, or in the spelling of
\* the repository URL only.
InitDiffer ==
  \E section \in {"extensions", "skins"} :
    \E ta \in {d_c1, d_r, d_x}, tb \in {d_c1, d_r, d_x},
       ca \in {d_c1, d_c2, d_r, d_rg, d_cu}, cb \in {d_c1, d_c2, d_r, d_rg, d_cu} :
      /\ taqasta_yaml = [k \in {section} |-> <<Entry(NameA, ta), Entry(NameB, tb)>>]
      /\ canasta_yaml = [k \in {section} |-> <<Entry(NameA, ca), Entry(NameB, cb)>>]
      /\ mw_version = PyNone
      /\ result = <<>>
      /\ NoCall
      /\ NoRun

SpecDiffer == InitDiffer /\ [][Next]_vars

\* ------------------------------------------------------------ C28

\* The lines that give a detail of a listed item.
DetailFmts == FourFmts \cup {"        Other differences:"}

\* C28: a heading "Extensions with different configurations:" or "Skins with
\* different configurations:" is followed by an entry "~ <name>:", and every
\* entry "~ <name>:" is followed by a detail line before the next entry or the
\* end of its section.
C28_ListedItemsHaveDetails ==
  Called =>
    \A i \in 1..Len(result) :
      /\ result[i].fmt \in { "  Extensions with different configurations:",
                             "  Skins with different configurations:" }
           => i < Len(result) /\ result[i + 1].fmt = "    ~ {}:"
      /\ result[i].fmt = "    ~ {}:"
           => i < Len(result) /\ result[i + 1].fmt \in DetailFmts

\* Two extensions listed as different, one after the other.
C28_Witness ==
  /\ Called
  /\ Len(NamesUnder("  Extensions with different configurations:")) = 2
  /\ taqasta_yaml["extensions"][1][NameA] = d_r
  /\ canasta_yaml["extensions"][1][NameA] = d_c2

\* ------------------------------------------------------------ fetcher: YAML documents

\* A document is a sequence of lines `key: value` of its top-level mapping. Two
\* keys stand for content that is no such line: "[" for a line that is not
\* YAML (an unclosed bracket) and "\\xff" for bytes that are not UTF-8.
YamlLine(k, v) == [key |-> k, value |-> v]

not_yaml == YamlLine("[", PyNone)
not_utf8 == YamlLine("\\xff", PyNone)
null_line == YamlLine("null", PyNone)
empty_mapping == YamlLine("{}", PyNone)
\* A stretch of NUL bytes, which no YAML document may hold.
nul_line == YamlLine("\\x00", PyNone)

\* The outcome of a call: the exception raised, "" when the call returns.
Raise(exception, message) == [raised |-> exception, value |-> message]
Return(v) == [raised |-> "", value |-> v]

\* The keys of the generated documents, in sorted order.
sorted_keys == <<"extensions", "mediawiki_version", "skins", "version">>

\* yaml.safe_load of a file opened as UTF-8 text, or of a string: None for
\* an empty document, the mapping of its lines otherwise, a later line of a
\* key replacing an earlier one.
safe_load(text) ==
  IF \E i \in 1..Len(text) : text[i].key = "\\xff" THEN Raise("UnicodeDecodeError", <<>>)
  ELSE IF \E i \in 1..Len(text) : text[i].key \in {"[", "\\x00"} THEN Raise("YAMLError", <<>>)
  ELSE IF text = <<>> \/ (Len(text) = 1 /\ text[1].key = "null") THEN Return(PyNone)
  ELSE IF Len(text) = 1 /\ text[1].key = "{}" THEN Return(EmptyDict)
  ELSE Return([k \in {text[i].key : i \in 1..Len(text)} |->
                 text[CHOOSE i \in 1..Len(text) :
                        text[i].key = k /\ \A j \in (i + 1)..Len(text) : text[j].key # k].value])

\* yaml.dump(data, default_flow_style=False, allow_unicode=True): `null` for
\* None, `{}` for an empty mapping, the lines of a mapping with its keys sorted.
dump(data) ==
  IF data = PyNone THEN <<null_line>>
  ELSE IF DOMAIN data = {} THEN <<empty_mapping>>
  ELSE LET keys == SelectSeq(sorted_keys, LAMBDA k : k \in DOMAIN data)
       IN [i \in 1..Len(keys) |-> YamlLine(keys[i], data[keys[i]])]

\* ------------------------------------------------------------ fetcher: cache and network

\* The path of the cache file: the MD5 digest of the key, taken as one-to-one.
_get_cache_path(repo, ref, file_path) ==
  Line("md5({}:{}:{}).yaml", <<repo, ref, file_path>>)

github_url(repo, ref, file_path) ==
  Line("https://raw.githubusercontent.com/{}/{}/{}", <<repo, ref, file_path>>)

\* What the network gives a request: a timeout, another failure of the
\* request or of its status, or the text of the document.
Timeout == [error |-> "Timeout", text |-> <<>>]
RequestException == [error |-> "RequestException", text |-> <<>>]
Response(text) == [error |-> "", text |-> text]

_fetch_from_github(repo, ref, file_path, response) ==
  LET request_url == github_url(repo, ref, file_path)
  IN IF response.error = "Timeout"
     THEN Raise("RuntimeError", Line("Request timed out while fetching {}", <<request_url>>))
     ELSE IF response.error # ""
     THEN Raise("RuntimeError", Line("Failed to fetch {}: {}", <<request_url, response.error>>))
     ELSE Return(response.text)

\* The files of a directory without one file.
unlink(files, path) == [p \in DOMAIN files \ {path} |-> files[p]]

\* What a whole call gives: the triple asked for, its outcome, the cache
\* directory it leaves and the URLs it requested.
Outcome(triple, out, files, requests) ==
  [raised |-> out.raised, value |-> out.value, cache |-> files, requests |-> requests,
   triple |-> triple]

\* Mutant of _load_cached_or_fetch: the cache file is never read.
_load_cached_or_fetch_uncached(files, repo, ref, file_path, response) ==
  LET triple == [repo |-> repo, ref |-> ref, file_path |-> file_path]
      cache_path == _get_cache_path(repo, ref, file_path)
      request_url == github_url(repo, ref, file_path)
      content == _fetch_from_github(repo, ref, file_path, response)
      data == safe_load(content.value)
  IN IF content.raised # "" THEN Outcome(triple, content, files, <<request_url>>)
     ELSE IF data.raised = "YAMLError"
     THEN Outcome(triple, Raise("ValueError", Line("Parse YAML file from {}/{}/{}: {}",
                                           <<repo, ref, file_path, data.raised>>)),
                  files, <<request_url>>)
     ELSE Outcome(triple, data, (cache_path :> dump(data.value)) @@ unlink(files, cache_path), <<request_url>>)

\* Mutant of _load_cached_or_fetch: the fetched text is cached before it is parsed.
_load_cached_or_fetch_text_cached(files, repo, ref, file_path, response) ==
  LET triple == [repo |-> repo, ref |-> ref, file_path |-> file_path]
      cache_path == _get_cache_path(repo, ref, file_path)
      request_url == github_url(repo, ref, file_path)
      exists == cache_path \in DOMAIN files
      cached == IF exists THEN safe_load(files[cache_path]) ELSE Raise("", <<>>)
      content == _fetch_from_github(repo, ref, file_path, response)
      data == safe_load(content.value)
      written == (cache_path :> content.value) @@ unlink(files, cache_path)
  IN IF exists /\ cached.raised = "" THEN Outcome(triple, cached, files, <<>>)
     ELSE IF exists /\ cached.raised # "YAMLError" THEN Outcome(triple, cached, files, <<>>)
     ELSE IF content.raised # "" THEN Outcome(triple, content, unlink(files, cache_path), <<request_url>>)
     ELSE IF data.raised = "YAMLError"
     THEN Outcome(triple, Raise("ValueError", Line("Parse YAML file from {}/{}/{}: {}",
                                           <<repo, ref, file_path, data.raised>>)),
                  written, <<request_url>>)
     ELSE Outcome(triple, data, written, <<request_url>>)

\* One call of _load_cached_or_fetch by the only process that uses the cache
\* directory `files`, the network answering `response` if it is asked.
_load_cached_or_fetch(files, repo, ref, file_path, response) ==
  LET triple == [repo |-> repo, ref |-> ref, file_path |-> file_path]
      cache_path == _get_cache_path(repo, ref, file_path)
      request_url == github_url(repo, ref, file_path)
      exists == cache_path \in DOMAIN files
      cached == IF exists THEN safe_load(files[cache_path]) ELSE Raise("", <<>>)
      content == _fetch_from_github(repo, ref, file_path, response)
      data == safe_load(content.value)
  IN IF exists /\ cached.raised = "" THEN Outcome(triple, cached, files, <<>>)
     ELSE IF exists /\ cached.raised # "YAMLError" THEN Outcome(triple, cached, files, <<>>)
     ELSE IF content.raised # "" THEN Outcome(triple, content, unlink(files, cache_path), <<request_url>>)
     ELSE IF data.raised = "YAMLError"
     THEN Outcome(triple, Raise("ValueError", Line("Parse YAML file from {}/{}/{}: {}",
                                           <<repo, ref, file_path, data.raised>>)),
                  unlink(files, cache_path), <<request_url>>)
     ELSE Outcome(triple, data, (cache_path :> dump(data.value)) @@ unlink(files, cache_path), <<request_url>>)

values_yml == <<"v", "a", "l", "u", "e", "s", ".", "y", "m", "l">>

\* fetch_taqasta_values(ref)
fetch_taqasta_values(files, ref, response) ==
  _load_cached_or_fetch(files, "WikiTeq/Taqasta", ref, values_yml, response)

\* ------------------------------------------------------------ _load_cached_or_fetch called in sequence

v_1_39_1 == <<"1", ".", "3", "9", ".", "1">>
file_1_43 == <<"1", ".", "4", "3", ".", "y", "a", "m", "l">>

\* The documents of the repositories and of the cache files.
doc_base ==
  << YamlLine("version", PyStr(v_1_39_1)), YamlLine("extensions", <<Entry(NameA, d_c1)>>) >>
doc_reference == << YamlLine("extensions", <<Entry(NameA, d_c2)>>) >>
doc_twice ==
  << YamlLine("extensions", <<Entry(NameA, d_c1)>>), YamlLine("extensions", <<>>) >>
doc_unclosed == << YamlLine("extensions", <<>>), not_yaml >>

Responses ==
  { Timeout, RequestException, Response(doc_base), Response(doc_reference),
    Response(doc_twice), Response(doc_unclosed), Response(<<>>) }

\* The files a cache directory may hold when a fetcher is made: one written
\* by an earlier run, and files damaged since.
CacheFiles == { dump(safe_load(doc_base).value), <<>>, doc_unclosed, <<not_utf8>> }

Triples ==
  { [repo |-> "WikiTeq/Taqasta", ref |-> master, file_path |-> values_yml],
    [repo |-> "CanastaWiki/RecommendedRevisions", ref |-> main, file_path |-> file_1_43] }

PathOf(t) == _get_cache_path(t.repo, t.ref, t.file_path)

InitCache ==
  \E T \in SUBSET Triples :
    \E files \in [{PathOf(t) : t \in T} -> CacheFiles] :
      /\ cache = files
      /\ network = <<>>
      /\ loads = <<>>
      /\ procs = <<>>
      /\ NoMain
      /\ NoTrees
      /\ NoCall

\* self._load_cached_or_fetch(repo, ref, file_path), one call after another.
LoadCachedOrFetch ==
  /\ Len(loads) < MaxLoads
  /\ \E t \in Triples, response \in Responses :
       LET out == _load_cached_or_fetch(cache, t.repo, t.ref, t.file_path, response)
       IN /\ returned' = [raised |-> out.raised, value |-> out.value]
          /\ cache' = out.cache
          /\ network' = network \o [i \in 1..Len(out.requests) |->
                                      [url |-> out.requests[i], response |-> response]]
          /\ loads' = Append(loads, t)
  /\ UNCHANGED <<taqasta_yaml, canasta_yaml, mw_version, result, arguments, main_vars, procs>>

NextCache == LoadCachedOrFetch

SpecCache == InitCache /\ [][NextCache]_vars

\* ------------------------------------------------------------ C23

\* The cache file of a triple is there and parses.
Readable(files, t) == PathOf(t) \in DOMAIN files /\ safe_load(files[PathOf(t)]).raised = ""

\* The triple of the call a step makes.
Loaded == loads'[Len(loads')]

\* C23: a successful call for a triple that has no cache file sends exactly
\* one request, returns the tree parsed from the answer and leaves a cache
\* file of the triple that parses to the tree returned; a call for a triple
\* whose cache file is readable returns the tree that file parses to and
\* sends no request.
C23_CacheProtocol ==
  [][ loads' # loads =>
        /\ (PathOf(Loaded) \notin DOMAIN cache /\ returned'.raised = "") =>
             /\ Len(network') = Len(network) + 1
             /\ network'[Len(network')].url
                  = github_url(Loaded.repo, Loaded.ref, Loaded.file_path)
             /\ safe_load(network'[Len(network')].response.text) = Return(returned'.value)
             /\ Readable(cache', Loaded)
             /\ safe_load(cache'[PathOf(Loaded)]) = Return(returned'.value)
        /\ Readable(cache, Loaded) =>
             /\ returned' = safe_load(cache[PathOf(Loaded)])
             /\ network' = network
             /\ cache' = cache ]_vars

\* Two calls for one triple: the first fetched a document whose keys the
\* cache file holds in another order, the second was served from the cache.
C23_Witness ==
  /\ Len(loads) = 2
  /\ loads[1] = loads[2]
  /\ Len(network) = 1
  /\ network[1].response = Response(doc_base)
  /\ returned = safe_load(doc_base)
  /\ cache[PathOf(loads[1])] # doc_base

\* ------------------------------------------------------------ C24

\* The cache file of a triple is there and does not parse.
Corrupted(files, t) == PathOf(t) \in DOMAIN files /\ safe_load(files[PathOf(t)]).raised # ""

\* The answer to the request a step sends.
Answer == network'[Len(network')].response

\* C24: a call for a triple whose cache file is there and cannot be parsed
\* sends a request; when the answer is a document that parses, the call
\* returns its tree and the cache file parses to that tree afterwards; when
\* the fetch fails, the error is the fetch's and the damaged file is gone.
C24_CorruptedCacheRecovered ==
  [][ (loads' # loads /\ Corrupted(cache, Loaded)) =>
        /\ Len(network') = Len(network) + 1
        /\ IF Answer.error = "" /\ safe_load(Answer.text).raised = ""
           THEN /\ returned' = safe_load(Answer.text)
                /\ Readable(cache', Loaded)
                /\ safe_load(cache'[PathOf(Loaded)]) = returned'
           ELSE /\ returned'.raised \in {"RuntimeError", "ValueError"}
                /\ PathOf(Loaded) \notin DOMAIN cache' ]_vars

\* ------------------------------------------------------------ C25

\* C25: a request that times out raises RuntimeError "Request timed out
\* ...", one that fails otherwise raises RuntimeError "Failed to fetch ...",
\* an answer that does not parse raises ValueError; the triple has no cache
\* file after any of these, and a call for a triple without a cache file
\* sends a request.
C25_FailuresClassifiedNotCached ==
  [][ loads' # loads =>
        LET request_url == github_url(Loaded.repo, Loaded.ref, Loaded.file_path)
            failed == Answer.error # "" \/ safe_load(Answer.text).raised # ""
        IN /\ network' # network =>
                /\ Answer.error = "Timeout" =>
                     returned' = Raise("RuntimeError",
                                       Line("Request timed out while fetching {}", <<request_url>>))
                /\ Answer.error = "RequestException" =>
                     /\ returned'.raised = "RuntimeError"
                     /\ returned'.value.fmt = "Failed to fetch {}: {}"
                     /\ returned'.value.args[1] = request_url
                /\ (Answer.error = "" /\ safe_load(Answer.text).raised # "") =>
                     returned'.raised = "ValueError"
                /\ failed => PathOf(Loaded) \notin DOMAIN cache'
                /\ ~failed => returned'.raised = ""
           /\ PathOf(Loaded) \notin DOMAIN cache => Len(network') = Len(network) + 1 ]_vars

\* A call that failed on an answer that is not YAML, after a call for the
\* same triple that had timed out.
C25_Witness ==
  /\ Len(loads) = 2
  /\ loads[1] = loads[2]
  /\ Len(network) = 2
  /\ network[1].response = Timeout
  /\ network[2].response = Response(doc_unclosed)
  /\ returned.raised = "ValueError"
  /\ PathOf(loads[2]) \notin DOMAIN cache

\* ------------------------------------------------------------ fetcher: fetch_canasta_revisions

\* The version keys as keys of a parsed document.
KeyText ==
  (version :> "version") @@ (mediawiki_version :> "mediawiki_version")
    @@ (mw_version_key :> "mw_version") @@ (mediawiki :> "mediawiki")

\* _detect_mediawiki_version(taqasta_data): `key in data` raises on None.
_detect_mediawiki_version(taqasta_data) ==
  IF taqasta_data = PyNone
  THEN Raise("TypeError", <<>>)
  ELSE LET present == {k \in SetOf(version_keys) : KeyText[k] \in DOMAIN taqasta_data}
       IN Return(PyStr(_extract_version_from_yaml([k \in present |-> taqasta_data[KeyText[k]]])))

dot_yaml == <<".", "y", "a", "m", "l">>

\* Mutant of fetch_canasta_revisions: the document of the default version is
\* fetched whatever the base configuration says.
fetch_canasta_revisions_fixed(files, ref, taqasta_data, response) ==
  _load_cached_or_fetch(files, "CanastaWiki/RecommendedRevisions", ref,
                        DEFAULT_MW_VERSION \o dot_yaml, response)

\* fetch_canasta_revisions(ref, taqasta_data): the default version when the
\* base configuration is None or empty.
fetch_canasta_revisions(files, ref, taqasta_data, response) ==
  LET version_of_base ==
        IF taqasta_data # PyNone /\ DOMAIN taqasta_data # {}
        THEN _detect_mediawiki_version(taqasta_data).value.s
        ELSE DEFAULT_MW_VERSION
      yaml_file == version_of_base \o dot_yaml
  IN _load_cached_or_fetch(files, "CanastaWiki/RecommendedRevisions", ref, yaml_file, response)

\* ------------------------------------------------------------ cli: main

\* Mutant of resolve_git_reference: the branch is looked at before the commit.
resolve_git_reference_branch_first(a_commit, a_branch, default_branch) ==
  IF Truthy(a_branch) THEN a_branch
  ELSE IF Truthy(a_commit) THEN a_commit
  ELSE default_branch

resolve_git_reference(a_commit, a_branch, default_branch) ==
  IF Truthy(a_commit) THEN a_commit
  ELSE IF Truthy(a_branch) THEN a_branch
  ELSE default_branch

format_error_message(context, error) == Line("Failed to {}: {}", <<context, error>>)

\* Mutant of except_clause: KeyboardInterrupt handled like any other exception.
except_clause_one_handler(e) ==
  [ code |-> EXIT_ERROR, line |-> format_error_message("compare YAML files", e.value) ]

\* The except clauses of main: the exit code and the line sent to stderr.
except_clause(e) ==
  IF e.raised = "KeyboardInterrupt"
  THEN [ code |-> EXIT_KEYBOARD_INTERRUPT, line |-> Line("\nOperation cancelled by user", <<>>) ]
  ELSE [ code |-> EXIT_ERROR, line |-> format_error_message("compare YAML files", e.value) ]

\* The documents the two repositories may hold.
doc_float == << YamlLine("mediawiki_version", PyFloat(<<"1", ".", "4", "4">>)) >>
doc_short ==
  << YamlLine("version", PyStr(<<"1">>)), YamlLine("extensions", <<Entry(NameA, d_c2)>>) >>

MainResponses ==
  { Timeout, Response(doc_base), Response(doc_reference), Response(doc_float),
    Response(doc_short), Response(<<empty_mapping>>), Response(<<>>) }

\* The parsed command lines: a branch option has its default when not given.
Arguments ==
  [ taqasta_commit : {PyNone, PyStr(<<>>), PyStr(c1)},
    taqasta_branch : {PyStr(master), PyStr(<<>>), PyStr(b1)},
    canasta_commit : {PyNone, PyStr(c2)},
    canasta_branch : {PyStr(main), PyStr(b2)},
    output : {PyNone, PyStr(<<"o">>)} ]

\* main after parser.parse_args(), with a cache directory that holds no file.
InitMain ==
  \E parsed \in Arguments :
    /\ args = parsed
    /\ pc = "fetcher"
    /\ taqasta_ref = Unset
    /\ canasta_ref = Unset
    /\ stdout = <<>>
    /\ stderr = <<>>
    /\ exit_code = Unset
    /\ raised = Unset
    /\ NoFetcher
    /\ NoTrees
    /\ NoCall

\* An exception leaves the try block: its except clause writes to stderr and
\* main returns the exit code.
Except(e) ==
  /\ raised' = e
  /\ stderr' = Append(stderr, except_clause(e).line)
  /\ exit_code' = except_clause(e).code
  /\ pc' = "done"

\* fetcher = YamlFetcher(cache_dir=args.cache_dir)
MainMakeFetcher ==
  /\ pc = "fetcher"
  /\ \/ /\ pc' = "resolve"
        /\ UNCHANGED <<stderr, exit_code, raised>>
     \/ Except(Raise("RuntimeError", Line("Cannot create cache directory {}: {}", <<>>)))
  /\ UNCHANGED <<taqasta_yaml, canasta_yaml, mw_version, result, arguments, returned,
                 args, taqasta_ref, canasta_ref, stdout, fetcher_vars>>

\* taqasta_ref = resolve_git_reference(...); canasta_ref = resolve_git_reference(...)
MainResolveReferences ==
  /\ pc = "resolve"
  /\ taqasta_ref' = resolve_git_reference(args.taqasta_commit, args.taqasta_branch, PyStr(master))
  /\ canasta_ref' = resolve_git_reference(args.canasta_commit, args.canasta_branch, PyStr(main))
  /\ pc' = "fetch_taqasta"
  /\ UNCHANGED <<taqasta_yaml, canasta_yaml, mw_version, result, arguments, returned,
                 args, stdout, stderr, exit_code, raised, fetcher_vars>>

\* What a call of the fetcher by main leaves in the cache and the logs.
Fetched(out, response, triple) ==
  /\ cache' = out.cache
  /\ network' = network \o [i \in 1..Len(out.requests) |->
                              [url |-> out.requests[i], response |-> response]]
  /\ loads' = Append(loads, triple)
  /\ UNCHANGED procs

\* taqasta_yaml = fetcher.fetch_taqasta_values(taqasta_ref)
MainFetchTaqasta ==
  /\ pc = "fetch_taqasta"
  /\ \E response \in MainResponses :
       LET out == fetch_taqasta_values(cache, Format(taqasta_ref), response)
       IN /\ Fetched(out, response, out.triple)
          /\ IF out.raised = ""
             THEN /\ taqasta_yaml' = out.value
                  /\ pc' = "fetch_canasta"
                  /\ UNCHANGED <<stderr, exit_code, raised>>
             ELSE /\ Except(Raise(out.raised, out.value))
                  /\ UNCHANGED taqasta_yaml
  /\ UNCHANGED <<canasta_yaml, mw_version, result, arguments, returned,
                 args, taqasta_ref, canasta_ref, stdout>>

\* canasta_yaml = fetcher.fetch_canasta_revisions(canasta_ref, taqasta_yaml)
MainFetchCanasta ==
  /\ pc = "fetch_canasta"
  /\ \E response \in MainResponses :
       LET out == fetch_canasta_revisions(cache, Format(canasta_ref), taqasta_yaml, response)
       IN /\ Fetched(out, response, out.triple)
          /\ IF out.raised = ""
             THEN /\ canasta_yaml' = out.value
                  /\ pc' = "detect"
                  /\ UNCHANGED <<stderr, exit_code, raised>>
             ELSE /\ Except(Raise(out.raised, out.value))
                  /\ UNCHANGED canasta_yaml
  /\ UNCHANGED <<taqasta_yaml, mw_version, result, arguments, returned,
                 args, taqasta_ref, canasta_ref, stdout>>

\* mw_version = fetcher._detect_mediawiki_version(taqasta_yaml)
MainDetectVersion ==
  /\ pc = "detect"
  /\ LET out == _detect_mediawiki_version(taqasta_yaml)
     IN IF out.raised = ""
        THEN /\ mw_version' = out.value
             /\ pc' = "compare"
             /\ UNCHANGED <<stderr, exit_code, raised>>
        ELSE /\ Except(out)
             /\ UNCHANGED mw_version
  /\ UNCHANGED <<taqasta_yaml, canasta_yaml, result, arguments, returned,
                 args, taqasta_ref, canasta_ref, stdout, fetcher_vars>>

\* diff_output = comparer.compare(taqasta_yaml, canasta_yaml, taqasta_ref,
\* canasta_ref, mw_version): canasta_yaml.get raises on None.
MainCompare ==
  /\ pc = "compare"
  /\ \E hash_order \in HashOrders :
       LET diff_output == compare(taqasta_yaml, canasta_yaml, Format(taqasta_ref),
                                  Format(canasta_ref), mw_version, hash_order)
       IN IF canasta_yaml = PyNone
          THEN Except(Raise("AttributeError", <<>>)) /\ UNCHANGED result
          ELSE IF diff_output = <<Line("TypeError", <<>>)>>
          THEN Except(Raise("TypeError", <<>>)) /\ UNCHANGED result
          ELSE /\ result' = diff_output
               /\ pc' = "output"
               /\ UNCHANGED <<stderr, exit_code, raised>>
  /\ UNCHANGED <<taqasta_yaml, canasta_yaml, mw_version, arguments, returned,
                 args, taqasta_ref, canasta_ref, stdout, fetcher_vars>>

\* if args.output: write the file and print where it is; else: print(diff_output)
MainOutput ==
  /\ pc = "output"
  /\ \/ /\ stdout' = IF args.output # PyNone
                     THEN Append(stdout, Line("Diff saved to {}", <<Format(args.output)>>))
                     ELSE stdout \o result
        /\ pc' = "return"
        /\ UNCHANGED <<stderr, exit_code, raised>>
     \/ /\ args.output # PyNone
        /\ raised' = Raise("OSError", <<>>)
        /\ stderr' = Append(stderr, format_error_message(
                                      Line("write to output file {}", <<Format(args.output)>>),
                                      raised'.value))
        /\ exit_code' = EXIT_ERROR
        /\ pc' = "done"
        /\ UNCHANGED stdout
     \/ /\ args.output = PyNone
        /\ Except(Raise("BrokenPipeError", <<>>))
        /\ UNCHANGED stdout
  /\ UNCHANGED <<taqasta_yaml, canasta_yaml, mw_version, result, arguments, returned,
                 args, taqasta_ref, canasta_ref, fetcher_vars>>

\* return EXIT_SUCCESS
MainReturn ==
  /\ pc = "return"
  /\ exit_code' = EXIT_SUCCESS
  /\ pc' = "done"
  /\ UNCHANGED <<taqasta_yaml, canasta_yaml, mw_version, result, arguments, returned,
                 args, taqasta_ref, canasta_ref, stdout, stderr, raised, fetcher_vars>>

\* Ctrl-C before a statement of the try block has run or has ended.
MainKeyboardInterrupt ==
  /\ pc \in {"fetcher", "resolve", "fetch_taqasta", "fetch_canasta", "detect", "compare",
            "output", "return"}
  /\ Except(Raise("KeyboardInterrupt", <<>>))
  /\ UNCHANGED <<taqasta_yaml, canasta_yaml, mw_version, result, arguments, returned,
                 args, taqasta_ref, canasta_ref, stdout, fetcher_vars>>

NextMain ==
  \/ MainMakeFetcher
  \/ MainResolveReferences
  \/ MainFetchTaqasta
  \/ MainFetchCanasta
  \/ MainDetectVersion
  \/ MainCompare
  \/ MainOutput
  \/ MainReturn
  \/ MainKeyboardInterrupt

SpecMain == InitMain /\ [][NextMain]_vars

\* ------------------------------------------------------------ C21

\* An option that was given a non-empty value.
Given(v) == v # PyNone /\ v.s # <<>>

\* The commit when given, else the branch when given, else the default branch.
Resolved(a_commit, a_branch, default_branch) ==
  IF Given(a_commit) THEN a_commit.s
  ELSE IF Given(a_branch) THEN a_branch.s
  ELSE default_branch

TaqastaResolved == Resolved(args.taqasta_commit, args.taqasta_branch, master)
CanastaResolved == Resolved(args.canasta_commit, args.canasta_branch, main)

\* C21: each ref of main is the commit when a non-empty commit is given,
\* otherwise the branch when it is not empty, otherwise the default branch;
\* the base document is fetched at the base ref, the reference document at
\* the reference ref, and compare is given the two refs.
C21_RefsResolved ==
  /\ pc \in {"fetch_taqasta", "fetch_canasta", "detect", "compare", "output", "return"} =>
       /\ taqasta_ref = PyStr(TaqastaResolved)
       /\ canasta_ref = PyStr(CanastaResolved)
  /\ Len(loads) >= 1 => loads[1].ref = TaqastaResolved
  /\ Len(loads) >= 2 => loads[2].ref = CanastaResolved
  /\ Called => result[1] = Line("Comparing Taqasta ({}) vs Canasta ({})",
                                <<TaqastaResolved, CanastaResolved>>)

\* A run to the report with a commit and a branch given for the base and a
\* branch alone for the reference.
C21_Witness ==
  /\ Called
  /\ args.taqasta_commit = PyStr(c1)
  /\ args.taqasta_branch = PyStr(b1)
  /\ args.canasta_commit = PyNone
  /\ loads[1].ref = c1
  /\ loads[2].ref = b2

\* ------------------------------------------------------------ C22

\* The output is delivered: the report is on stdout, or the line that names
\* the file it was saved to.
Delivered ==
  /\ Called
  /\ stdout = IF args.output = PyNone THEN result
              ELSE <<Line("Diff saved to {}", <<args.output.s>>)>>

\* What the claim and its amendment share: main returns 0, 1 or 130; 130
\* exactly when KeyboardInterrupt was raised in the try block, 1 exactly when
\* another exception was raised, with "Failed to compare YAML files: ..." on
\* stderr unless it was the failure to write the output file.
ExitCodeFollowsException ==
  /\ exit_code \in {0, 1, 130}
  /\ exit_code = 130 <=> (raised # Unset /\ raised.raised = "KeyboardInterrupt")
  /\ exit_code = 1 <=> (raised # Unset /\ raised.raised # "KeyboardInterrupt")
  /\ exit_code = 1 =>
       /\ Len(stderr) = 1
       /\ stderr[1].fmt = "Failed to {}: {}"
       /\ IF raised.raised = "OSError"
          THEN stderr[1].args[1] = Line("write to output file {}", <<args.output.s>>)
          ELSE stderr[1].args[1] = "compare YAML files"

\* C22 as stated: 0 exactly when both fetches, the comparison and the output
\* succeeded, and with 1 or 130 the report is not on stdout.
C22_ExitCodes ==
  pc = "done" =>
    /\ ExitCodeFollowsException
    /\ exit_code = 0 <=> (Len(loads) = 2 /\ Delivered)
    /\ exit_code \in {1, 130} => stdout = <<>>

\* C22 amended: 0 exactly when no exception was raised in the try block, and
\* then both documents were fetched, the report made and the output
\* delivered; with 1 nothing is on stdout; with 130 stdout is empty or, when
\* the interrupt came after the output statement, holds the output.
C22_ExitCodesInterruptAfterOutput ==
  pc = "done" =>
    /\ ExitCodeFollowsException
    /\ exit_code = 0 <=> raised = Unset
    /\ exit_code = 0 => (Len(loads) = 2 /\ Delivered /\ stderr = <<>>)
    /\ exit_code = 1 => stdout = <<>>
    /\ exit_code = 130 => (stdout = <<>> \/ Delivered)

\* A run interrupted after the report was printed.
C22_Witness ==
  /\ pc = "done"
  /\ exit_code = 130
  /\ args.output = PyNone
  /\ Delivered

\* ------------------------------------------------------------ C29

\* The version a base tree gives: that of the first version key whose value
\* is usable, "1.43" when there is none or the tree is empty.
DetectedVersion(tree) ==
  LET keys == SelectSeq(<<"version", "mediawiki_version", "mw_version", "mediawiki">>,
                        LAMBDA k : k \in DOMAIN tree /\ Usable(tree[k]))
  IN IF keys = <<>> THEN <<"1", ".", "4", "3">> ELSE VersionOf(tree[keys[1]])

\* C29: in a run of main that has detected the version, the base document was
\* asked for first and the reference document second, the reference document
\* is "<v>.yaml" for the version v of the fetched base tree, v is the version
\* given to compare and the report shows it in its "MediaWiki Version:" line.
C29_VersionRouted ==
  mw_version # PyNone =>
    LET v == DetectedVersion(taqasta_yaml)
    IN /\ Len(loads) = 2
       /\ loads[1] = [repo |-> "WikiTeq/Taqasta", ref |-> TaqastaResolved,
                      file_path |-> <<"v", "a", "l", "u", "e", "s", ".", "y", "m", "l">>]
       /\ loads[2] = [repo |-> "CanastaWiki/RecommendedRevisions", ref |-> CanastaResolved,
                      file_path |-> v \o <<".", "y", "a", "m", "l">>]
       /\ Len(network) = 2
       /\ network[1].url.args[1] = "WikiTeq/Taqasta"
       /\ network[2].url.args = <<"CanastaWiki/RecommendedRevisions", CanastaResolved,
                                  v \o <<".", "y", "a", "m", "l">>>>
       /\ mw_version = PyStr(v)
       /\ Called => result[2] = Line("MediaWiki Version: {}", <<v>>)

\* A report made from a base document that gives the version 1.44.
C29_Witness ==
  /\ Called
  /\ taqasta_yaml = safe_load(doc_float).value
  /\ loads[2].file_path = <<"1", ".", "4", "4", ".", "y", "a", "m", "l">>
  /\ result[2] = Line("MediaWiki Version: {}", <<<<"1", ".", "4", "4">>>>)

\* ------------------------------------------------------------ C30

\* Two fetcher processes with the same cache directory.
Processes == {1, 2}

\* The triple both processes load, and its cache path.
shared_triple == [repo |-> "WikiTeq/Taqasta", ref |-> master, file_path |-> values_yml]
shared_path == PathOf(shared_triple)

\* The document the server holds for the triple.
document == arguments[1]

\* What a file holds after `line` is written at offset pos - 1: the bytes
\* between the old end of the file and the offset read as NUL.
WriteAt(text, pos, line) ==
  [i \in 1..(IF Len(text) > pos THEN Len(text) ELSE pos) |->
     IF i = pos THEN line ELSE IF i <= Len(text) THEN text[i] ELSE nul_line]

\* A process at the start of _load_cached_or_fetch.
Calling ==
  [pc |-> "exists", data |-> PyNone, text |-> <<>>, written |-> 0, attached |-> FALSE,
   out |-> Return(PyNone)]

InitShared ==
  /\ \E d \in {doc_base, doc_reference} :
       /\ arguments = <<d>>
       /\ cache \in {<<>>, shared_path :> dump(safe_load(d).value), shared_path :> doc_unclosed}
  /\ procs = [p \in Processes |-> Calling]
  /\ network = <<>>
  /\ loads = <<>>
  /\ returned = Unset
  /\ NoMain
  /\ NoTrees

SharedUnchanged ==
  UNCHANGED <<taqasta_yaml, canasta_yaml, mw_version, result, arguments, returned, main_vars,
              loads>>

\* if cache_path.exists():
CacheExists(p) ==
  /\ procs[p].pc = "exists"
  /\ procs' = [procs EXCEPT ![p].pc = IF shared_path \in DOMAIN cache THEN "read" ELSE "fetch"]
  /\ UNCHANGED <<cache, network>>
  /\ SharedUnchanged

\* with cache_path.open("r") as f: return yaml.safe_load(f), and the except
\* clause that sends YAMLError and IOError on to the unlink.
CacheRead(p) ==
  /\ procs[p].pc = "read"
  /\ LET cached == IF shared_path \in DOMAIN cache THEN safe_load(cache[shared_path])
                   ELSE Raise("FileNotFoundError", <<>>)
     IN procs' = [procs EXCEPT ![p] =
                    IF cached.raised \in {"YAMLError", "FileNotFoundError"}
                    THEN [@ EXCEPT !.pc = "unlink"]
                    ELSE [@ EXCEPT !.pc = "done", !.out = cached]]
  /\ UNCHANGED <<cache, network>>
  /\ SharedUnchanged

\* cache_path.unlink(missing_ok=True): a process that has the file open keeps
\* writing to a file that has no name any more.
CacheUnlink(p) ==
  /\ procs[p].pc = "unlink"
  /\ cache' = unlink(cache, shared_path)
  /\ procs' = [q \in Processes |->
                 IF q = p THEN [procs[q] EXCEPT !.pc = "fetch"]
                 ELSE [procs[q] EXCEPT !.attached = FALSE]]
  /\ UNCHANGED network
  /\ SharedUnchanged

\* content = self._fetch_from_github(...); data = yaml.safe_load(content)
FetchAndParse(p) ==
  /\ procs[p].pc = "fetch"
  /\ \E response \in {Response(document), Timeout} :
       LET content == _fetch_from_github(shared_triple.repo, shared_triple.ref,
                                         shared_triple.file_path, response)
           data == safe_load(content.value)
       IN /\ procs' = [procs EXCEPT ![p] =
                         IF content.raised # "" THEN [@ EXCEPT !.pc = "done", !.out = content]
                         ELSE IF data.raised = "YAMLError"
                         THEN [@ EXCEPT !.pc = "done", !.out = Raise("ValueError", <<>>)]
                         ELSE [@ EXCEPT !.pc = "open", !.data = data.value]]
          /\ network' = Append(network,
                               [url |-> github_url(shared_triple.repo, shared_triple.ref,
                                                   shared_triple.file_path),
                                response |-> response])
  /\ UNCHANGED cache
  /\ SharedUnchanged

\* cache_path.open("w"): the file is made, or emptied if it is there.
OpenForWriting(p) ==
  /\ procs[p].pc = "open"
  /\ cache' = (shared_path :> <<>>) @@ cache
  /\ procs' = [procs EXCEPT ![p] =
                 [@ EXCEPT !.pc = "dump", !.text = dump(procs[p].data), !.written = 0,
                           !.attached = TRUE]]
  /\ UNCHANGED network
  /\ SharedUnchanged

\* yaml.dump(data, f): the text reaches the file a piece at a time, each at
\* the offset this process has got to.
Dump(p) ==
  /\ procs[p].pc = "dump"
  /\ procs[p].written < Len(procs[p].text)
  /\ cache' = IF procs[p].attached
              THEN (shared_path :> WriteAt(cache[shared_path], procs[p].written + 1,
                                           procs[p].text[procs[p].written + 1])) @@ cache
              ELSE cache
  /\ procs' = [procs EXCEPT ![p].written = @ + 1]
  /\ UNCHANGED network
  /\ SharedUnchanged

\* The end of the with block, and return data.
CloseAndReturn(p) ==
  /\ procs[p].pc = "dump"
  /\ procs[p].written = Len(procs[p].text)
  /\ procs' = [procs EXCEPT ![p] = [@ EXCEPT !.pc = "done", !.out = Return(procs[p].data)]]
  /\ UNCHANGED <<cache, network>>
  /\ SharedUnchanged

NextShared ==
  \E p \in Processes :
    \/ CacheExists(p)
    \/ CacheRead(p)
    \/ CacheUnlink(p)
    \/ FetchAndParse(p)
    \/ OpenForWriting(p)
    \/ Dump(p)
    \/ CloseAndReturn(p)

SpecShared == InitShared /\ [][NextShared]_vars

\* C30: with two processes loading the same triple through one cache
\* directory, every call that returns gives the tree parsed from the whole
\* document, never what a file another process is still writing holds.
C30_ReadersSeeCompleteEntries ==
  \A p \in Processes :
    (procs # <<>> /\ procs[p].pc = "done" /\ procs[p].out.raised = "") =>
      procs[p].out.value = safe_load(document).value

====
